---- MODULE Spec2Model ----
(***************************************************************************)
(* Model of the brightstaff gateway (crates/brightstaff): the streaming    *)
(* handoff of chat_completions, the preferences handlers over the shared   *)
(* provider list, RouterService::determine_route, and the prompt builder   *)
(* and response parser of RouterModelV1.                                   *)
(*                                                                         *)
(* The module holds several specifications over one set of variables; each *)
(* drives one subsystem and leaves the variables of the others at their    *)
(* idle values:                                                            *)
(*   SpecStream  - the reader task / channel / client of one response      *)
(*   SpecPrefs   - list_preferences, update_preferences, determine_route   *)
(*   SpecChat    - the request path of chat_completions up to the upstream *)
(*   SpecPrompt  - RouterModelV1::generate_request on bounded inputs       *)
(*   SpecClientPrompt - generate_request on messages of any role/content   *)
(*   SpecModel   - RouterModelV1::new, generate_request and parse_response *)
(*                 per request, on two gateways of one configuration       *)
(*   SpecRoute   - update_preferences and determine_route                  *)
(***************************************************************************)
EXTENDS Integers, Sequences, FiniteSets, TLC

VARIABLES
    \* ---- streaming handoff (chat_completions.rs 178-203)
    task_pc,        \* position of the spawned reader task: "next" | "send" | "done"
    item,           \* the chunk the task holds between next() and send(); 0 = none
    byte_stream,    \* chunks the upstream has yielded so far, in order
    stream_err,     \* TRUE once byte_stream.next() yielded Some(Err(_))
    chan,           \* contents of the mpsc channel (tx -> rx), oldest first
    rx_dropped,     \* TRUE once the response body (ReceiverStream) was dropped
    send_failed,    \* TRUE once tx.send(item).await returned Err
    delivered,      \* chunks the response body has yielded to hyper, in order
    body_ended,     \* TRUE once the response body stream yielded None
    \* ---- shared provider list and its handlers (main.rs 64, preferences.rs)
    llm_providers,  \* Arc<RwLock<Vec<LlmProvider>>>: the Vec, in config order
    router_service, \* the RouterService built once in main (main.rs 90-95)
    lock_writer,    \* TRUE while the write guard of the RwLock is held
    lock_readers,   \* number of read guards of the RwLock held
    upd_pc,         \* update_preferences: "idle"|"parsed"|"validate"|"apply"|"done"
    upd_batch,      \* the parsed request body: Vec<ModelUsagePreference>
    upd_idx,        \* position of the iter_mut loop over the providers
    upd_updated,    \* updated_models_list
    upd_status,     \* HTTP status of the last update response; 0 = none yet
    upd_before,     \* history: the provider list when the write guard was taken
    list_pc,        \* list_preferences: "idle" | "wait" | "scan" | "done"
    list_idx,       \* position of the iter() over the providers
    list_out,       \* providers_with_usage collected so far
    list_seen,      \* history: provider lists committed while the read ran
    list_overlap,   \* history: a writer held the guard when the read returned
    dr_seen,        \* what the last determine_route read from the RouterService
    dr_catalog,     \* history: the provider list when that call started
    dr_after_update,\* history: that call started after a successful update
    upd_succeeded,  \* history: some update_preferences has returned 200
    \* ---- a second update_preferences running at the same time
    peer_pc,        \* "idle" | "parsed" | "validate" | "apply" | "done"
    peer_batch,     \* usage: the parsed body of that request
    peer_idx,       \* position of its iter_mut loop over the providers
    peer_updated,   \* its updated_models_list
    peer_status,    \* HTTP status of its response; 0 = none yet
    peer_before,    \* history: the provider list when it took the write guard
    upd_base,       \* history: the provider list before any update
    \* ---- one chat request (chat_completions.rs 26-176, llm_router.rs 75-195)
    ch_pc,          \* "idle"|"route"|"upstream"|"streaming"|"responded"|"panicked"
    ch_body,        \* the inbound request body
    ch_trace,       \* trace_parent: Option<String>
    ch_prefs,       \* usage_preferences: Option<Vec<ModelUsagePreference>>
    ch_reply,       \* history: what the router LLM answered
    ch_route,       \* what determine_route returned
    ch_status,      \* status of the response returned to the client; 0 = none
    ch_hint,        \* x-arch-llm-provider-hint of the upstream request
    ch_router_calls,   \* POSTs made to the router LLM for this request
    ch_upstream_calls, \* POSTs made to the upstream provider for this request
    ch_outbound,    \* chat_request_user_preferences_removed, the body to forward
    \* ---- RouterModelV1: prompt builder and response parser (router_model_v1.rs)
    pr_pc,          \* "input" while the conversation arrives, then "built"
    pr_messages,    \* messages: &[Message] given to generate_request
    pr_max,         \* RouterModelV1.max_token_length
    pr_selected,    \* selected_conversation_list of the built request
    pr_llm_routes,  \* llm_routes given to RouterModelV1::new: model -> preferences
    pr_model,       \* the RouterModelV1: llm_route_json_str, llm_route_to_model_map
    pr_peer,        \* the RouterModelV1 of a second gateway built from pr_llm_routes
    pr_prefs,       \* usage_preferences_from_request of the current request
    pr_routes,      \* what replaced {routes} in the prompt built by pr_model
    pr_peer_routes, \* what replaced {routes} in the prompt built by pr_peer
    pr_content,     \* content given to parse_response
    pr_parsed,      \* what parse_response returned
    pr_overridden,  \* history: an earlier request of this gateway had an override
    \* ---- SseChatCompletionIter over one streamed body (openai/types.rs 204-275)
    sse_pc,         \* "idle" | "iterating" | "ended" (next returned None)
    sse_lines,      \* the lines of the input, as str::lines() yields them
    sse_pos,        \* the next line the inner iterator yields
    sse_items       \* the items next has returned so far

streamVars == <<task_pc, item, byte_stream, stream_err, chan, rx_dropped,
                send_failed, delivered, body_ended>>

peerVars == <<peer_pc, peer_batch, peer_idx, peer_updated, peer_status, peer_before,
              upd_base>>

prefVars == <<llm_providers, router_service, lock_writer, lock_readers,
              upd_pc, upd_batch, upd_idx, upd_updated, upd_status, upd_before,
              list_pc, list_idx, list_out, list_seen, list_overlap,
              dr_seen, dr_catalog, dr_after_update, upd_succeeded, peerVars>>

chatVars == <<ch_pc, ch_body, ch_trace, ch_prefs, ch_reply, ch_route, ch_status,
              ch_hint, ch_router_calls, ch_upstream_calls, ch_outbound>>

promptVars == <<pr_pc, pr_messages, pr_max, pr_selected, pr_llm_routes, pr_model,
                pr_peer, pr_prefs, pr_routes, pr_peer_routes, pr_content, pr_parsed,
                pr_overridden>>

sseVars == <<sse_pc, sse_lines, sse_pos, sse_items>>

vars == <<streamVars, prefVars, chatVars, promptVars, sseVars>>

-----------------------------------------------------------------------------
(* Bounds *)

\* Largest number of chunks the upstream yields for one response.
MaxChunks == 19

\* Largest number of entries in the body of a PUT /v1/router/preferences.
MaxBatch == 2

\* Largest number of messages in the conversation of a chat request.
MaxMsgs == 3

-----------------------------------------------------------------------------
(* Shared provider list: main, RouterService::new, the preferences handlers *)

\* Option::None of LlmProvider.usage / ModelUsagePreference.usage
NoUsage == "none"

\* The providers of the configuration file, in file order.
ProviderNames == {"p1", "p2"}

ConfigProviders(u1, u2) ==
    << [name |-> "p1", model |-> "m1", usage |-> u1],
       [name |-> "p2", model |-> "m2", usage |-> u2] >>

\* usage values a configuration may give a provider
ConfigUsages == {NoUsage, "old"}

\* Fields of the entries of a PUT body (ModelUsagePreference).  "ghost" is the
\* name of no provider; "m1" is the model of provider p1 and the name of none.
EntryNames == {"p1", "p2", "ghost"}
EntryModels == {"p1", "p2", "m1"}
EntryUsages == {"new"}

Entries == [name : EntryNames, model : EntryModels, usage : EntryUsages]

SeqsUpTo(S, n) == UNION {[1..k -> S] : k \in 0..n}

Batches == SeqsUpTo(Entries, MaxBatch)

\* Iterator::flatten / flat_map over a sequence of sequences
RECURSIVE Flatten(_)
Flatten(seqs) == IF seqs = <<>> THEN <<>> ELSE Head(seqs) \o Flatten(Tail(seqs))

HasUsage(provider) == provider.usage # NoUsage

\* LlmRoute::from(&LlmProvider): the route a routable provider offers
LlmRouteFrom(provider) == [name |-> provider.name, description |-> provider.usage]

\* The last provider of the list with the given name (HashMap::collect keeps
\* the last value inserted under a key).
LastNamed(providers, n) ==
    providers[CHOOSE i \in DOMAIN providers :
                /\ providers[i].name = n
                /\ \A j \in DOMAIN providers : providers[j].name = n => j <= i]

\* RouterService::new(providers, ..)
RouterServiceNew(providers) ==
    LET providers_with_usage == SelectSeq(providers, HasUsage)
    IN  [ llm_routes |-> [i \in DOMAIN providers_with_usage |->
                            LlmRouteFrom(providers_with_usage[i])],
          llm_usage_defined |-> providers_with_usage # <<>>,
          llm_provider_map |-> [n \in {providers[i].name : i \in DOMAIN providers} |->
                                  LastNamed(providers, n)] ]

\* The key under which update_preferences files an entry of the batch.
UsageMapKey(u) == u.model

\* usage.into_iter().map(|u| (u.model.clone(), u)).collect::<HashMap<..>>()
UsageModelMap(batch) ==
    [k \in {UsageMapKey(batch[i]) : i \in DOMAIN batch} |->
        batch[CHOOSE i \in DOMAIN batch :
                /\ UsageMapKey(batch[i]) = k
                /\ \A j \in DOMAIN batch : UsageMapKey(batch[j]) = k => j <= i]]

\* llm_provider_names
LlmProviderNames(providers) == {providers[i].name : i \in DOMAIN providers}

\* ModelUsagePreference { name, model: model.unwrap_or_default(), usage }
AsPreference(provider) ==
    [name |-> provider.name, model |-> provider.model, usage |-> provider.usage]

\* No second update_preferences is running.
PeerIdle ==
    /\ peer_pc = "idle"
    /\ peer_batch = <<>>
    /\ peer_idx = 0
    /\ peer_updated = <<>>
    /\ peer_status = 0
    /\ peer_before = llm_providers
    /\ upd_base = llm_providers

PrefsIdle ==
    /\ llm_providers = ConfigProviders("old", "old")
    /\ router_service = RouterServiceNew(llm_providers)
    /\ PeerIdle
    /\ lock_writer = FALSE
    /\ lock_readers = 0
    /\ upd_pc = "idle"
    /\ upd_batch = <<>>
    /\ upd_idx = 0
    /\ upd_updated = <<>>
    /\ upd_status = 0
    /\ upd_before = llm_providers
    /\ upd_succeeded = FALSE
    /\ list_pc = "idle"
    /\ list_idx = 0
    /\ list_out = <<>>
    /\ list_seen = {}
    /\ list_overlap = FALSE
    /\ dr_seen = router_service
    /\ dr_catalog = llm_providers
    /\ dr_after_update = FALSE

\* main: llm_providers and the RouterService are both built from clones of
\* arch_config.llm_providers.
PrefsInit ==
    /\ llm_providers \in {ConfigProviders(u1, u2) : u1 \in ConfigUsages, u2 \in ConfigUsages}
    /\ router_service = RouterServiceNew(llm_providers)
    /\ PeerIdle
    /\ lock_writer = FALSE
    /\ lock_readers = 0
    /\ upd_pc = "idle"
    /\ upd_batch = <<>>
    /\ upd_idx = 0
    /\ upd_updated = <<>>
    /\ upd_status = 0
    /\ upd_before = llm_providers
    /\ upd_succeeded = FALSE
    /\ list_pc = "idle"
    /\ list_idx = 0
    /\ list_out = <<>>
    /\ list_seen = {}
    /\ list_overlap = FALSE
    /\ dr_seen = router_service
    /\ dr_catalog = llm_providers
    /\ dr_after_update = FALSE

updVars == <<upd_pc, upd_batch, upd_idx, upd_updated, upd_status, upd_before, upd_succeeded>>
listVars == <<list_pc, list_idx, list_out, list_seen, list_overlap>>
drVars == <<dr_seen, dr_catalog, dr_after_update>>

\* A commit of the provider list is seen by a list_preferences that is
\* scanning, or that returned while the committing writer held the guard.
SeenAfterCommit(catalog) ==
    IF list_pc = "scan" \/ list_overlap THEN list_seen \cup {catalog} ELSE list_seen

\* update_preferences, lines 53-75: the body is collected and parsed, and the
\* entries are keyed into usage_model_map.
UpdateRequest(batch) ==
    /\ upd_pc = "idle"
    /\ upd_pc' = "parsed"
    /\ upd_batch' = batch
    /\ upd_idx' = 0
    /\ upd_updated' = <<>>
    /\ upd_status' = 0
    /\ UNCHANGED <<upd_before, upd_succeeded, llm_providers, router_service,
                   lock_writer, lock_readers, listVars, drVars>>
    /\ UNCHANGED <<peerVars, streamVars, chatVars, promptVars, sseVars>>

\* update_preferences, lines 55-67: the body is not a list of preferences.
UpdateInvalidBody ==
    /\ upd_pc = "idle"
    /\ upd_pc' = "done"
    /\ upd_batch' = <<>>
    /\ upd_idx' = 0
    /\ upd_updated' = <<>>
    /\ upd_status' = 400
    /\ UNCHANGED <<upd_before, upd_succeeded, llm_providers, router_service,
                   lock_writer, lock_readers, listVars, drVars>>
    /\ UNCHANGED <<peerVars, streamVars, chatVars, promptVars, sseVars>>

\* Mutant: the write guard is granted whoever holds the lock.
WriteGrantedAlways == TRUE

\* llm_providers.write().await can be granted: nobody holds the lock.
WriteGranted == ~lock_writer /\ lock_readers = 0

\* llm_providers.write().await is granted
UpdateLock ==
    /\ upd_pc = "parsed"
    /\ WriteGranted
    /\ lock_writer' = TRUE
    /\ upd_before' = llm_providers
    /\ upd_pc' = "validate"
    /\ UNCHANGED <<upd_batch, upd_idx, upd_updated, upd_status, upd_succeeded,
                   llm_providers, router_service, lock_readers, listVars, drVars>>
    /\ UNCHANGED <<peerVars, streamVars, chatVars, promptVars, sseVars>>

\* lines 85-98: some key of usage_model_map is the name of no provider; the
\* handler returns 400 and the write guard is dropped.
UpdateRejected ==
    /\ upd_pc = "validate"
    /\ \E k \in DOMAIN UsageModelMap(upd_batch) : k \notin LlmProviderNames(llm_providers)
    /\ upd_status' = 400
    /\ upd_pc' = "done"
    /\ lock_writer' = FALSE
    /\ list_seen' = SeenAfterCommit(llm_providers)
    /\ list_overlap' = FALSE
    /\ UNCHANGED <<upd_batch, upd_idx, upd_updated, upd_before, upd_succeeded,
                   llm_providers, router_service, lock_readers,
                   list_pc, list_idx, list_out, drVars>>
    /\ UNCHANGED <<peerVars, streamVars, chatVars, promptVars, sseVars>>

\* lines 85-100: every key names a provider; the update loop starts.
UpdateValidated ==
    /\ upd_pc = "validate"
    /\ \A k \in DOMAIN UsageModelMap(upd_batch) : k \in LlmProviderNames(llm_providers)
    /\ upd_pc' = "apply"
    /\ upd_idx' = 1
    /\ upd_updated' = <<>>
    /\ UNCHANGED <<upd_batch, upd_status, upd_before, upd_succeeded, llm_providers,
                   router_service, lock_writer, lock_readers, listVars, drVars>>
    /\ UNCHANGED <<peerVars, streamVars, chatVars, promptVars, sseVars>>

\* lines 101-110: one iteration of the loop over llm_providers.iter_mut()
UpdateApply ==
    /\ upd_pc = "apply"
    /\ upd_idx <= Len(llm_providers)
    /\ LET provider == llm_providers[upd_idx]
           map == UsageModelMap(upd_batch)
       IN  IF provider.name \in DOMAIN map
           THEN LET updated == [provider EXCEPT !.usage = map[provider.name].usage]
                IN  /\ llm_providers' = [llm_providers EXCEPT ![upd_idx] = updated]
                    /\ upd_updated' = Append(upd_updated, AsPreference(updated))
           ELSE UNCHANGED <<llm_providers, upd_updated>>
    /\ upd_idx' = upd_idx + 1
    /\ UNCHANGED <<upd_pc, upd_batch, upd_status, upd_before, upd_succeeded,
                   router_service, lock_writer, lock_readers, listVars, drVars>>
    /\ UNCHANGED <<peerVars, streamVars, chatVars, promptVars, sseVars>>

\* lines 112-134: 200 with the updated records, or 404 when none was updated;
\* the write guard is dropped on return.
UpdateReturn ==
    /\ upd_pc = "apply"
    /\ upd_idx > Len(llm_providers)
    /\ upd_status' = IF upd_updated # <<>> THEN 200 ELSE 404
    /\ upd_succeeded' = (upd_succeeded \/ upd_updated # <<>>)
    /\ upd_pc' = "done"
    /\ lock_writer' = FALSE
    /\ list_seen' = SeenAfterCommit(llm_providers)
    /\ list_overlap' = FALSE
    /\ UNCHANGED <<upd_batch, upd_idx, upd_updated, upd_before, llm_providers,
                   router_service, lock_readers, list_pc, list_idx, list_out, drVars>>
    /\ UNCHANGED <<peerVars, streamVars, chatVars, promptVars, sseVars>>

\* The response has been handed to hyper: the handler's locals are dropped.
UpdateDone ==
    /\ upd_pc = "done"
    /\ upd_pc' = "idle"
    /\ upd_batch' = <<>>
    /\ upd_idx' = 0
    /\ upd_updated' = <<>>
    /\ upd_status' = 0
    /\ upd_before' = llm_providers
    /\ UNCHANGED <<upd_succeeded, llm_providers, router_service, lock_writer,
                   lock_readers, listVars, drVars>>
    /\ UNCHANGED <<peerVars, streamVars, chatVars, promptVars, sseVars>>

\* Mutant: the read guard is granted while a writer holds the lock.
ReadGrantedAlways == TRUE

\* llm_providers.read().await can be granted: no writer holds the lock.
ReadGranted == ~lock_writer

\* list_preferences is called for a GET and awaits llm_providers.read().
ListRequest ==
    /\ list_pc \in {"idle", "done"}
    /\ list_pc' = "wait"
    /\ list_idx' = 0
    /\ list_out' = <<>>
    /\ list_seen' = {}
    /\ list_overlap' = FALSE
    /\ UNCHANGED <<llm_providers, router_service, lock_writer, lock_readers,
                   updVars, drVars>>
    /\ UNCHANGED <<peerVars, streamVars, chatVars, promptVars, sseVars>>

\* list_preferences, line 12: the read guard is taken.
ListLock ==
    /\ list_pc = "wait"
    /\ ReadGranted
    /\ lock_readers' = lock_readers + 1
    /\ list_pc' = "scan"
    /\ list_idx' = 1
    /\ list_out' = <<>>
    /\ list_seen' = IF lock_writer THEN {upd_before} ELSE {llm_providers}
    /\ list_overlap' = FALSE
    /\ UNCHANGED <<llm_providers, router_service, lock_writer, updVars, drVars>>
    /\ UNCHANGED <<peerVars, streamVars, chatVars, promptVars, sseVars>>

\* lines 14-21: one step of prov.iter().map(..)
ListScan ==
    /\ list_pc = "scan"
    /\ list_idx <= Len(llm_providers)
    /\ list_out' = Append(list_out, AsPreference(llm_providers[list_idx]))
    /\ list_idx' = list_idx + 1
    /\ UNCHANGED <<list_pc, list_seen, list_overlap, llm_providers, router_service,
                   lock_writer, lock_readers, updVars, drVars>>
    /\ UNCHANGED <<peerVars, streamVars, chatVars, promptVars, sseVars>>

\* lines 23-33: the list is serialised and returned; the read guard is dropped.
ListReturn ==
    /\ list_pc = "scan"
    /\ list_idx > Len(llm_providers)
    /\ list_pc' = "done"
    /\ lock_readers' = lock_readers - 1
    /\ list_overlap' = lock_writer
    /\ UNCHANGED <<list_idx, list_out, list_seen, llm_providers, router_service,
                   lock_writer, updVars, drVars>>
    /\ UNCHANGED <<peerVars, streamVars, chatVars, promptVars, sseVars>>

\* What a determine_route call reads: llm_usage_defined (line 81), the routes
\* of router_model (line 85) and llm_provider_map (line 174), all fields of the
\* RouterService it was given.
Observed(service) == service

\* RouterService::determine_route is invoked for a chat request.
DetermineRoute ==
    /\ dr_seen' = Observed(router_service)
    /\ dr_catalog' = llm_providers
    /\ dr_after_update' = (upd_succeeded /\ upd_pc \notin {"validate", "apply"})
    /\ UNCHANGED <<llm_providers, router_service, lock_writer, lock_readers,
                   updVars, listVars>>
    /\ UNCHANGED <<peerVars, streamVars, chatVars, promptVars, sseVars>>

\* The second update_preferences, lines 53-75: its body is parsed.
PeerRequest(batch) ==
    /\ peer_pc = "idle"
    /\ peer_pc' = "parsed"
    /\ peer_batch' = batch
    /\ peer_idx' = 0
    /\ peer_updated' = <<>>
    /\ peer_status' = 0
    /\ UNCHANGED <<peer_before, upd_base, llm_providers, router_service, lock_writer,
                   lock_readers, updVars, listVars, drVars>>
    /\ UNCHANGED <<streamVars, chatVars, promptVars, sseVars>>

\* line 77: its llm_providers.write().await is granted
PeerLock ==
    /\ peer_pc = "parsed"
    /\ WriteGranted
    /\ lock_writer' = TRUE
    /\ peer_before' = llm_providers
    /\ peer_pc' = "validate"
    /\ UNCHANGED <<peer_batch, peer_idx, peer_updated, peer_status, upd_base, llm_providers,
                   router_service, lock_readers, updVars, listVars, drVars>>
    /\ UNCHANGED <<streamVars, chatVars, promptVars, sseVars>>

\* lines 85-98: 400, and its write guard is dropped
PeerRejected ==
    /\ peer_pc = "validate"
    /\ \E k \in DOMAIN UsageModelMap(peer_batch) : k \notin LlmProviderNames(llm_providers)
    /\ peer_status' = 400
    /\ peer_pc' = "done"
    /\ lock_writer' = FALSE
    /\ list_seen' = SeenAfterCommit(llm_providers)
    /\ list_overlap' = FALSE
    /\ UNCHANGED <<peer_batch, peer_idx, peer_updated, peer_before, upd_base, llm_providers,
                   router_service, lock_readers, updVars, list_pc, list_idx, list_out,
                   drVars>>
    /\ UNCHANGED <<streamVars, chatVars, promptVars, sseVars>>

\* lines 85-100: its batch is valid
PeerValidated ==
    /\ peer_pc = "validate"
    /\ \A k \in DOMAIN UsageModelMap(peer_batch) : k \in LlmProviderNames(llm_providers)
    /\ peer_pc' = "apply"
    /\ peer_idx' = 1
    /\ peer_updated' = <<>>
    /\ UNCHANGED <<peer_batch, peer_status, peer_before, upd_base, llm_providers,
                   router_service, lock_writer, lock_readers, updVars, listVars, drVars>>
    /\ UNCHANGED <<streamVars, chatVars, promptVars, sseVars>>

\* lines 101-110: one iteration of its loop over llm_providers.iter_mut()
PeerApply ==
    /\ peer_pc = "apply"
    /\ peer_idx <= Len(llm_providers)
    /\ LET provider == llm_providers[peer_idx]
           map == UsageModelMap(peer_batch)
       IN  IF provider.name \in DOMAIN map
           THEN LET updated == [provider EXCEPT !.usage = map[provider.name].usage]
                IN  /\ llm_providers' = [llm_providers EXCEPT ![peer_idx] = updated]
                    /\ peer_updated' = Append(peer_updated, AsPreference(updated))
           ELSE UNCHANGED <<llm_providers, peer_updated>>
    /\ peer_idx' = peer_idx + 1
    /\ UNCHANGED <<peer_pc, peer_batch, peer_status, peer_before, upd_base, router_service,
                   lock_writer, lock_readers, updVars, listVars, drVars>>
    /\ UNCHANGED <<streamVars, chatVars, promptVars, sseVars>>

\* lines 112-134: 200 or 404, and its write guard is dropped
PeerReturn ==
    /\ peer_pc = "apply"
    /\ peer_idx > Len(llm_providers)
    /\ peer_status' = IF peer_updated # <<>> THEN 200 ELSE 404
    /\ peer_pc' = "done"
    /\ lock_writer' = FALSE
    /\ list_seen' = SeenAfterCommit(llm_providers)
    /\ list_overlap' = FALSE
    /\ UNCHANGED <<peer_batch, peer_idx, peer_updated, peer_before, upd_base, llm_providers,
                   router_service, lock_readers, updVars, list_pc, list_idx, list_out,
                   drVars>>
    /\ UNCHANGED <<streamVars, chatVars, promptVars, sseVars>>

\* The bodies of two PUTs sent at the same time, each writing its own usage:
\* an empty list, a name of no provider, one provider, both providers.
ConcurrentBatches(usage) ==
    { <<>>,
      <<[name |-> "ghost", model |-> "ghost", usage |-> usage]>>,
      <<[name |-> "p1", model |-> "p1", usage |-> usage]>>,
      <<[name |-> "p2", model |-> "p2", usage |-> usage]>>,
      <<[name |-> "p1", model |-> "p1", usage |-> usage],
        [name |-> "p2", model |-> "p2", usage |-> usage]>> }

\* Two PUT /v1/router/preferences and the GETs, each PUT handled once.
UpdatesNext ==
    \/ \E batch \in ConcurrentBatches("new") : UpdateRequest(batch)
    \/ UpdateInvalidBody
    \/ UpdateLock
    \/ UpdateRejected
    \/ UpdateValidated
    \/ UpdateApply
    \/ UpdateReturn
    \/ \E batch \in ConcurrentBatches("alt") : PeerRequest(batch)
    \/ PeerLock
    \/ PeerRejected
    \/ PeerValidated
    \/ PeerApply
    \/ PeerReturn
    \/ ListRequest
    \/ ListLock
    \/ ListScan
    \/ ListReturn

PrefsNext ==
    \/ \E batch \in Batches : UpdateRequest(batch)
    \/ UpdateInvalidBody
    \/ UpdateLock
    \/ UpdateRejected
    \/ UpdateValidated
    \/ UpdateApply
    \/ UpdateReturn
    \/ UpdateDone
    \/ ListRequest
    \/ ListLock
    \/ ListScan
    \/ ListReturn

RouteNext ==
    \/ \E batch \in Batches : UpdateRequest(batch)
    \/ UpdateInvalidBody
    \/ UpdateLock
    \/ UpdateRejected
    \/ UpdateValidated
    \/ UpdateApply
    \/ UpdateReturn
    \/ UpdateDone
    \/ DetermineRoute

-----------------------------------------------------------------------------
(* Response parser: RouterModelV1::parse_response and fix_json_response *)

\* A router reply is a sequence of lexical tokens: punctuation, the two quote
\* characters, the two-character sequence backslash-n, a line feed, the code
\* fences (three backticks, written [fence] here), and words (route names, the
\* key route, null, prose).
DQ == "\""
SQ == "'"
BackslashN == "\\n"
LineFeed == "\n"
FenceJson == "[fence]json"
Fence == "[fence]"

Punctuation == {"{", "}", ":", DQ, SQ, BackslashN, LineFeed, FenceJson, Fence}

\* {"route": "<name>"} written with quote character q
JsonRoute(q, name) == <<"{", q, "route", q, ":", q, name, q, "}">>

\* Route names a router LLM may emit: provider names, the sentinel, a name of
\* an override entry, a name nobody configured, and a name with an apostrophe.
RouteNames == {"p1", "p2", "other", "code", "zzz", "it's"}

RouterTexts ==
    {<<>>}
    \cup {JsonRoute(DQ, n) : n \in RouteNames}
    \cup {JsonRoute(SQ, "p1") \o <<BackslashN>>}
    \cup {<<FenceJson, LineFeed>> \o JsonRoute(DQ, "p2") \o <<LineFeed, Fence>>}
    \cup {<<"{", DQ, "route", DQ, ":", DQ, DQ, "}">>}
    \cup {<<"{", DQ, "route", DQ, ":", "null", "}">>}
    \cup {<<"{", "}">>}
    \cup {<<"{", DQ, "route", DQ, ":", DQ, "p1", DQ>>}
    \cup {<<"the", "route", "is", "p1">>}

NotSQ(t) == t # SQ
\* replace("'", "\""): every single quote becomes a double quote, also the
\* apostrophe inside a word, which splits the word.
SwapQuote(t) ==
    IF t = SQ THEN <<DQ>>
    ELSE IF t = "it's" THEN <<"it", DQ, "s">>
    ELSE <<t>>
NotBackslashN(t) == t # BackslashN
NotLineFeed(t) == t # LineFeed

\* fix_json_response(body)
FixJsonResponse(body) ==
    LET quoted == Flatten([i \in DOMAIN body |-> SwapQuote(body[i])])
        joined == SelectSeq(quoted, NotBackslashN)
        opened == IF joined # <<>> /\ Head(joined) = FenceJson THEN Tail(joined) ELSE joined
        closed == IF opened # <<>> /\ opened[Len(opened)] = Fence
                  THEN SubSeq(opened, 1, Len(opened) - 1)
                  ELSE opened
    IN  closed

\* serde_json::from_str::<LlmRouterResponse>(text): Ok with the route field
\* (NoRoute for an absent or null route), or Err.
NoRoute == "none"

\* Mutant: the route field is required to be a string.
ParseLlmRouterResponseStrict(text) ==
    LET t == SelectSeq(text, NotLineFeed)
    IN  IF t = <<"{", DQ, "route", DQ, ":", DQ, DQ, "}">>
        THEN [ok |-> TRUE, route |-> ""]
        ELSE IF Len(t) = 9 /\ t = JsonRoute(DQ, t[7]) /\ t[7] \notin Punctuation
        THEN [ok |-> TRUE, route |-> t[7]]
        ELSE [ok |-> FALSE, route |-> NoRoute]

ParseLlmRouterResponse(text) ==
    LET t == SelectSeq(text, NotLineFeed)
    IN  IF t = <<"{", "}">> \/ t = <<"{", DQ, "route", DQ, ":", "null", "}">>
        THEN [ok |-> TRUE, route |-> NoRoute]
        ELSE IF t = <<"{", DQ, "route", DQ, ":", DQ, DQ, "}">>
        THEN [ok |-> TRUE, route |-> ""]
        ELSE IF /\ Len(t) = 9
                /\ t = JsonRoute(DQ, t[7])
                /\ t[7] \notin Punctuation
        THEN [ok |-> TRUE, route |-> t[7]]
        ELSE [ok |-> FALSE, route |-> NoRoute]

\* Mutant: a reply that does not parse is taken as no route.
ParseRouteLenient(content) ==
    IF content = <<>>
    THEN [kind |-> "none", route |-> NoRoute]
    ELSE LET router_response == ParseLlmRouterResponse(FixJsonResponse(content))
             selected_route == IF router_response.route = NoRoute
                               THEN "" ELSE router_response.route
         IN  IF ~router_response.ok \/ selected_route = "" \/ selected_route = "other"
             THEN [kind |-> "none", route |-> NoRoute]
             ELSE [kind |-> "some", route |-> selected_route]

\* RouterModelV1::parse_response, lines 176-186: Err for a reply that does not
\* parse, None for an empty reply, an empty route or "other", else the route.
ParseRoute(content) ==
    IF content = <<>>
    THEN [kind |-> "none", route |-> NoRoute]
    ELSE LET router_response == ParseLlmRouterResponse(FixJsonResponse(content))
             selected_route == IF router_response.route = NoRoute
                               THEN "" ELSE router_response.route
         IN  IF ~router_response.ok
             THEN [kind |-> "err", route |-> NoRoute]
             ELSE IF selected_route = "" \/ selected_route = "other"
             THEN [kind |-> "none", route |-> NoRoute]
             ELSE [kind |-> "some", route |-> selected_route]

\* Mutant: a route the override does not have is looked up in the catalog.
ModelOfRouteFallsBack(model, usage_preferences, selected_route) ==
    LET list == usage_preferences.list
        Matches(i) == \E j \in DOMAIN list[i].routing_preferences :
                         list[i].routing_preferences[j].name = selected_route
    IN  IF usage_preferences.some /\ \E i \in DOMAIN list : Matches(i)
        THEN list[CHOOSE i \in DOMAIN list :
                   Matches(i) /\ \A k \in 1..(i - 1) : ~Matches(k)].model
        ELSE IF selected_route \in DOMAIN model.llm_route_to_model_map
        THEN model.llm_route_to_model_map[selected_route]
        ELSE NoRoute

\* parse_response, lines 188-221: the model a route resolves to.  With usage
\* preferences in the request it is the model of the first entry that has a
\* routing preference of that name; otherwise llm_route_to_model_map is looked
\* up.  NoRoute when nothing matches.
ModelOfRoute(model, usage_preferences, selected_route) ==
    IF usage_preferences.some
    THEN LET list == usage_preferences.list
             Matches(i) == \E j \in DOMAIN list[i].routing_preferences :
                              list[i].routing_preferences[j].name = selected_route
         IN  IF \E i \in DOMAIN list : Matches(i)
             THEN list[CHOOSE i \in DOMAIN list :
                        Matches(i) /\ \A k \in 1..(i - 1) : ~Matches(k)].model
             ELSE NoRoute
    ELSE IF selected_route \in DOMAIN model.llm_route_to_model_map
         THEN model.llm_route_to_model_map[selected_route]
         ELSE NoRoute

\* RouterModelV1::parse_response(content, usage_preferences), lines 171-222:
\* Err, Ok(None) or Ok(Some((route, model))).
ParseResponse(model, content, usage_preferences) ==
    LET parsed == ParseRoute(content)
    IN  IF parsed.kind # "some"
        THEN [kind |-> parsed.kind, route |-> NoRoute, model |-> NoRoute]
        ELSE LET model_name == ModelOfRoute(model, usage_preferences, parsed.route)
             IN  IF model_name = NoRoute
                 THEN [kind |-> "none", route |-> NoRoute, model |-> NoRoute]
                 ELSE [kind |-> "some", route |-> parsed.route, model |-> model_name]

-----------------------------------------------------------------------------
(* One chat request: chat_completions and RouterService::determine_route *)

\* Option::None of usage_preferences, trace_parent and a missing body field
NoPrefs == <<>>
NoTrace == "none"

\* The bytes of the strings that may be written into a header.
Utf8(str) ==
    CASE str = "" -> <<>>
      [] str = "m1" -> <<109, 49>>
      [] str = "m2" -> <<109, 50>>
      [] str = "gpt-4o" -> <<103, 112, 116, 45, 52, 111>>
      [] str = "gpt\n4o" -> <<103, 112, 116, 10, 52, 111>>
      [] str = "claude" -> <<99, 108, 97, 117, 100, 101>>
      [] str = "00-ab-cd-01" -> <<48, 48, 45, 97, 98, 45, 99, 100, 45, 48, 49>>

\* HeaderValue::from_str(str).is_ok(): every byte is a tab, or is at least 32
\* and not 127 (DEL).
IsHeaderValue(str) ==
    \A i \in DOMAIN Utf8(str) :
        LET b == Utf8(str)[i] IN b = 9 \/ (b >= 32 /\ b # 127)

\* What the client may put into the model field of a chat request.
ClientModels == {"gpt-4o", "gpt\n4o"}

\* The traceparent request header: absent, visible ASCII, or bytes for which
\* HeaderValue::to_str fails.
TraceHeaders == {"absent", "visible", "opaque"}

\* lines 89-92: value.to_str().unwrap_or_default().to_string()
TraceParent(header) ==
    CASE header = "absent" -> NoTrace
      [] header = "visible" -> "00-ab-cd-01"
      [] header = "opaque" -> ""

\* The override lists a client may send in metadata.archgw_preference_config.
OverrideLists ==
    { <<[name |-> "code", model |-> "claude"]>>,
      <<[name |-> "p1", model |-> "claude"], [name |-> "p1", model |-> "m2"]>> }

\* metadata.archgw_preference_config: absent, a string that is no YAML list of
\* preferences, or an override list.
Metadata == {[kind |-> "absent", prefs |-> NoPrefs], [kind |-> "unparsable", prefs |-> NoPrefs]}
            \cup {[kind |-> "override", prefs |-> o] : o \in OverrideLists}

\* The key of the metadata object that carries the override.
PREFERENCE_CONFIG_KEY == "archgw_preference_config"

\* The top-level metadata field as a JSON value: whether it is an object, and
\* the keys of that object.
NoMetadata == [object |-> FALSE, keys |-> {}]

\* What else the client sent in metadata: no metadata object at all, or an
\* object with these keys besides the override.
MetadataOthers == {NoMetadata} \cup {[object |-> TRUE, keys |-> ks] : ks \in SUBSET {"user_id"}}

\* Inbound bodies: bytes that are no JSON, the JSON value null, JSON that is
\* no chat-completions request, and chat-completions requests.  The override
\* key needs a metadata object to sit in.
Bodies ==
    {[json |-> k, model |-> "", metadata |-> [kind |-> "absent", prefs |-> NoPrefs],
      others |-> NoMetadata] : k \in {"invalid", "null", "other"}}
    \cup {b \in [json : {"chat"}, model : ClientModels, metadata : Metadata,
                 others : MetadataOthers] :
                b.metadata.kind # "absent" => b.others.object}

\* The metadata field of the parsed body, as serde_json::Value.
MetadataValue(body) ==
    [object |-> body.others.object,
     keys |-> body.others.keys \cup
              (IF body.metadata.kind # "absent" THEN {PREFERENCE_CONFIG_KEY} ELSE {})]

\* The body before it was sent: still no outbound value.
NoOutbound == [model |-> "", metadata |-> NoMetadata]

\* What the POST to the router LLM may come to.
RouterReplies ==
    { [kind |-> k, text |-> <<>>] : k \in {"transport_error", "not_json", "no_choices", "not_text"} }
    \cup { [kind |-> "text", text |-> t] : t \in RouterTexts }

NoReply == [kind |-> "none", text |-> <<>>]

ChatIdle ==
    /\ ch_pc = "idle"
    /\ ch_body = [json |-> "invalid", model |-> "",
                  metadata |-> [kind |-> "absent", prefs |-> NoPrefs], others |-> NoMetadata]
    /\ ch_outbound = NoOutbound
    /\ ch_trace = NoTrace
    /\ ch_prefs = NoPrefs
    /\ ch_reply = NoReply
    /\ ch_route = NoRoute
    /\ ch_status = 0
    /\ ch_hint = NoRoute
    /\ ch_router_calls = 0
    /\ ch_upstream_calls = 0

\* Mutant: a value that does not parse still yields an override list.
UsagePreferencesRecovered(body) ==
    IF body.metadata.kind = "override" THEN body.metadata.prefs
    ELSE IF body.metadata.kind = "unparsable" THEN <<[name |-> "p1", model |-> "claude"]>>
    ELSE NoPrefs

\* lines 94-103: the override is the YAML list when it parses, else None.
UsagePreferences(body) ==
    IF body.metadata.kind = "override" THEN body.metadata.prefs ELSE NoPrefs

\* Mutant: only the JSON value null is answered 400; bytes that are no JSON
\* go on to the typed parse.
IsNullBodyOnly(body) == body.json = "null"

\* lines 34-56: chat_request_parsed == Value::Null, for bytes that are no JSON
\* (unwrap_or_else gives Null) and for the JSON value null.
IsNullBody(body) == body.json \in {"invalid", "null"}

\* Mutant: the metadata object is forwarded as it came.
PreferencesRemovedNot(body) ==
    [model |-> body.model, metadata |-> MetadataValue(body)]

\* lines 61-82: chat_request_user_preferences_removed.  The override key is
\* removed from a metadata object, and a metadata object that is empty then is
\* removed from the body; every other field stays as parsed.
PreferencesRemoved(body) ==
    LET metadata == MetadataValue(body)
        m == metadata.keys \ {PREFERENCE_CONFIG_KEY}
    IN  [model |-> body.model,
         metadata |-> IF metadata.object /\ m # {}
                      THEN [object |-> TRUE, keys |-> m]
                      ELSE NoMetadata]

\* chat_completions, lines 26-103: the body is collected and parsed.  Bytes
\* that are no JSON and the JSON null are answered 400; from_value(..).unwrap()
\* panics on JSON that is no chat-completions request.
ChatRequest(body, header) ==
    /\ ch_pc = "idle"
    /\ ch_body' = body
    /\ ch_reply' = NoReply
    /\ ch_route' = NoRoute
    /\ ch_hint' = NoRoute
    /\ ch_router_calls' = 0
    /\ ch_upstream_calls' = 0
    /\ IF IsNullBody(body)
       THEN /\ ch_pc' = "responded"
            /\ ch_status' = 400
            /\ ch_trace' = NoTrace
            /\ ch_prefs' = NoPrefs
            /\ ch_outbound' = NoOutbound
       ELSE IF body.json = "other"
       THEN /\ ch_pc' = "panicked"
            /\ ch_status' = 0
            /\ ch_trace' = NoTrace
            /\ ch_prefs' = NoPrefs
            /\ ch_outbound' = NoOutbound
       ELSE /\ ch_pc' = "route"
            /\ ch_status' = 0
            /\ ch_trace' = TraceParent(header)
            /\ ch_prefs' = UsagePreferences(body)
            /\ ch_outbound' = PreferencesRemoved(body)
    /\ UNCHANGED <<streamVars, prefVars, promptVars, sseVars>>

\* Mutant: the override of the request is ignored.
SelectedModelNoOverride(service, usage_preferences, selected_llm_name) ==
    IF selected_llm_name \in DOMAIN service.llm_provider_map
    THEN service.llm_provider_map[selected_llm_name].model
    ELSE NoRoute

\* llm_router.rs, lines 161-182: the model of the selected route.
SelectedModel(service, usage_preferences, selected_llm_name) ==
    IF usage_preferences # NoPrefs
    THEN IF \E i \in DOMAIN usage_preferences : usage_preferences[i].name = selected_llm_name
         THEN usage_preferences[CHOOSE i \in DOMAIN usage_preferences :
                /\ usage_preferences[i].name = selected_llm_name
                /\ \A j \in 1..(i - 1) : usage_preferences[j].name # selected_llm_name].model
         ELSE NoRoute
    ELSE IF selected_llm_name \in DOMAIN service.llm_provider_map
         THEN service.llm_provider_map[selected_llm_name].model
         ELSE NoRoute

\* Mutant: a failed POST to the router LLM is taken as no decision.
RouteResultSwallowed(service, usage_preferences, reply) ==
    CASE reply.kind = "not_json" -> [ok |-> FALSE, route |-> NoRoute]
      [] reply.kind \in {"transport_error", "no_choices", "not_text"} ->
            [ok |-> TRUE, route |-> NoRoute]
      [] reply.kind = "text" ->
            LET parsed == ParseRoute(reply.text)
            IN  IF parsed.kind = "err"
                THEN [ok |-> FALSE, route |-> NoRoute]
                ELSE IF parsed.kind = "none" \/ parsed.route = "other"
                THEN [ok |-> TRUE, route |-> NoRoute]
                ELSE [ok |-> TRUE,
                      route |-> SelectedModel(service, usage_preferences, parsed.route)]

\* determine_route, lines 124-194: the result for a router reply.
RouteResult(service, usage_preferences, reply) ==
    CASE reply.kind \in {"transport_error", "not_json"} -> [ok |-> FALSE, route |-> NoRoute]
      [] reply.kind \in {"no_choices", "not_text"} -> [ok |-> TRUE, route |-> NoRoute]
      [] reply.kind = "text" ->
            LET parsed == ParseRoute(reply.text)
            IN  IF parsed.kind = "err"
                THEN [ok |-> FALSE, route |-> NoRoute]
                ELSE IF parsed.kind = "none" \/ parsed.route = "other"
                THEN [ok |-> TRUE, route |-> NoRoute]
                ELSE [ok |-> TRUE,
                      route |-> SelectedModel(service, usage_preferences, parsed.route)]

\* Mutant: an Err of determine_route is taken as no decision and the request
\* goes upstream with the client's model.
AfterRouteForwardsOnErr(result) ==
    /\ ch_route' = result.route
    /\ ch_status' = 0
    /\ ch_pc' = "upstream"
    /\ ch_hint' = IF result.route = NoRoute THEN ch_body.model ELSE result.route

\* chat_completions, lines 107-149, for the result of determine_route: 500 on
\* Err; else the client's model replaces a None, and the trace parent and the
\* hint are written into the headers with HeaderValue::from_str(..).unwrap().
AfterRoute(result) ==
    IF ~result.ok
    THEN /\ ch_pc' = "responded"
         /\ ch_status' = 500
         /\ ch_route' = NoRoute
         /\ ch_hint' = NoRoute
    ELSE LET determined_route == IF result.route = NoRoute THEN ch_body.model
                                 ELSE result.route
         IN  /\ ch_route' = result.route
             /\ ch_status' = 0
             /\ IF ch_trace # NoTrace /\ ~IsHeaderValue(ch_trace)
                THEN ch_pc' = "panicked" /\ ch_hint' = NoRoute
                ELSE IF ~IsHeaderValue(determined_route)
                THEN ch_pc' = "panicked" /\ ch_hint' = NoRoute
                ELSE ch_pc' = "upstream" /\ ch_hint' = determined_route

\* determine_route, lines 81-83: no provider has a usage; Ok(None) without a
\* call to the router LLM.
RouteFastPath ==
    /\ ch_pc = "route"
    /\ ~router_service.llm_usage_defined
    /\ AfterRoute([ok |-> TRUE, route |-> NoRoute])
    /\ UNCHANGED <<ch_body, ch_trace, ch_prefs, ch_reply, ch_router_calls, ch_upstream_calls,
                   ch_outbound>>
    /\ UNCHANGED <<streamVars, prefVars, promptVars, sseVars>>

\* determine_route, lines 85-194: the router LLM is asked and answers.
RouteByRouter(reply) ==
    /\ ch_pc = "route"
    /\ router_service.llm_usage_defined
    /\ ch_reply' = reply
    /\ ch_router_calls' = ch_router_calls + 1
    /\ AfterRoute(RouteResult(router_service, ch_prefs, reply))
    /\ UNCHANGED <<ch_body, ch_trace, ch_prefs, ch_upstream_calls, ch_outbound>>
    /\ UNCHANGED <<streamVars, prefVars, promptVars, sseVars>>

\* chat_completions, lines 154-176: the upstream answers; its headers are
\* copied and the body is streamed.
UpstreamResponds ==
    /\ ch_pc = "upstream"
    /\ ch_upstream_calls' = ch_upstream_calls + 1
    /\ ch_pc' = "streaming"
    /\ ch_status' = 200
    /\ UNCHANGED <<ch_body, ch_trace, ch_prefs, ch_reply, ch_route, ch_hint, ch_router_calls,
                   ch_outbound>>
    /\ UNCHANGED <<streamVars, prefVars, promptVars, sseVars>>

\* chat_completions, lines 154-168: the POST to the upstream fails.
UpstreamFails ==
    /\ ch_pc = "upstream"
    /\ ch_upstream_calls' = ch_upstream_calls + 1
    /\ ch_pc' = "responded"
    /\ ch_status' = 500
    /\ UNCHANGED <<ch_body, ch_trace, ch_prefs, ch_reply, ch_route, ch_hint, ch_router_calls,
                   ch_outbound>>
    /\ UNCHANGED <<streamVars, prefVars, promptVars, sseVars>>

\* The handler has returned (or its task has died); the next request arrives.
ChatDone ==
    /\ ch_pc \in {"responded", "streaming", "panicked"}
    /\ ch_pc' = "idle"
    /\ UNCHANGED <<ch_body, ch_trace, ch_prefs, ch_reply, ch_route, ch_status, ch_hint,
                   ch_router_calls, ch_upstream_calls, ch_outbound>>
    /\ UNCHANGED <<streamVars, prefVars, promptVars, sseVars>>

ChatNext ==
    \/ \E body \in Bodies, header \in TraceHeaders : ChatRequest(body, header)
    \/ RouteFastPath
    \/ \E reply \in RouterReplies : RouteByRouter(reply)
    \/ UpstreamResponds
    \/ UpstreamFails
    \/ ChatDone

-----------------------------------------------------------------------------
(* Prompt builder: RouterModelV1::generate_request *)

\* pub const MAX_TOKEN_LEN: usize = 2048
MAX_TOKEN_LEN == 2048

\* ARCH_ROUTER_V1_SYSTEM_PROMPT.len(): the bytes of the template, lines 14-32
PromptTemplateLen == 856

\* const TOKEN_LENGTH_DIVISOR: usize = 4
TOKEN_LENGTH_DIVISOR == 4

SYSTEM_ROLE == "system"
TOOL_ROLE == "tool"
USER_ROLE == "user"
ASSISTANT_ROLE == "assistant"

\* Message.role is a String: a client may send a role outside the four above.
DEVELOPER_ROLE == "developer"

Roles == {SYSTEM_ROLE, TOOL_ROLE, USER_ROLE, ASSISTANT_ROLE}

\* A text is modelled by its length in bytes.  The lengths cover the empty
\* text, a short turn, and turns that fill most of, or more than, a budget.
TextLens == {0, 40, 4000, 9000}

\* part.text of a MultiPartContent: Option<String>
NoText == -1

\* Message.content: None, ContentType::Text or ContentType::MultiPart
NoContent == [kind |-> "none", len |-> 0, parts |-> <<>>]
TextContent(n) == [kind |-> "text", len |-> n, parts |-> <<>>]
MultiPartContent(ps) == [kind |-> "parts", len |-> 0, parts |-> ps]
TextPart(n) == [type |-> "text", text |-> n]
ImagePart == [type |-> "image_url", text |-> NoText]

Contents ==
    {NoContent}
    \cup {TextContent(n) : n \in TextLens}
    \cup {MultiPartContent(<<TextPart(40), ImagePart, TextPart(40)>>)}

Messages == [role : Roles, content : Contents]

\* Messages as a client may send them: also a role outside the four, a
\* multi-part content of image parts only, and a text part without text.
ClientMessages ==
    [role : Roles \cup {DEVELOPER_ROLE},
     content : {NoContent, TextContent(0), TextContent(40),
                MultiPartContent(<<TextPart(40), ImagePart, TextPart(40)>>),
                MultiPartContent(<<ImagePart>>),
                MultiPartContent(<<TextPart(NoText), ImagePart>>)}]

\* The budgets a RouterModelV1 is built with: the default of RouterService::new
\* and the budgets of the tests (the first is below the template's own
\* estimate).
MaxTokenLengths == {200, 230, MAX_TOKEN_LEN}

\* The texts of the parts that ContentType::fmt keeps: text parts that have a
\* text; image parts are skipped.
RECURSIVE TextParts(_)
TextParts(ps) ==
    IF ps = <<>> THEN <<>>
    ELSE LET rest == TextParts(Tail(ps))
         IN  IF Head(ps).type = "text" /\ Head(ps).text # NoText
             THEN <<Head(ps).text>> \o rest
             ELSE rest

\* The length of text_parts.join("\n")
RECURSIVE JoinedLen(_)
JoinedLen(texts) ==
    IF texts = <<>> THEN 0
    ELSE IF Len(texts) = 1 THEN texts[1]
    ELSE texts[1] + 1 + JoinedLen(Tail(texts))

\* ContentType::fmt / to_string(): the length of the rendered text
ToStringLen(content) ==
    CASE content.kind = "text" -> content.len
      [] content.kind = "parts" -> JoinedLen(TextParts(content.parts))
      [] content.kind = "none" -> 0

\* lines 81-84: the filter that builds messages_vec
IsRouted(m) ==
    /\ m.role # SYSTEM_ROLE
    /\ m.role # TOOL_ROLE
    /\ m.content.kind # "none"

\* lines 91-97: message_token_count
MessageTokenCount(m) == ToStringLen(m.content) \div TOKEN_LENGTH_DIVISOR

\* Mutant: a message that exceeds the budget is kept whatever its role.
KeepOverBudgetAny(m) == TRUE

\* lines 107-110: the message that exceeds the budget is kept if from the user
KeepOverBudget(m) == m.role = USER_ROLE

\* Mutant: the walk goes on past a message that exceeds the budget.
RECURSIVE WalkOn(_, _, _, _, _)
WalkOn(messages_vec, k, token_count, max_token_length, pushed) ==
    IF k = 0 THEN pushed
    ELSE LET message == messages_vec[k]
             count == token_count + MessageTokenCount(message)
         IN  WalkOn(messages_vec, k - 1, count, max_token_length,
                    IF count > max_token_length /\ ~KeepOverBudget(message)
                    THEN pushed ELSE Append(pushed, message))

\* lines 90-115: the walk over messages_vec.iter().rev(), from position k down,
\* with the running token_count and the messages pushed so far.
RECURSIVE Walk(_, _, _, _, _)
Walk(messages_vec, k, token_count, max_token_length, pushed) ==
    IF k = 0 THEN pushed
    ELSE LET message == messages_vec[k]
             count == token_count + MessageTokenCount(message)
         IN  IF count > max_token_length
             THEN IF KeepOverBudget(message) THEN Append(pushed, message) ELSE pushed
             ELSE Walk(messages_vec, k - 1, count, max_token_length, Append(pushed, message))

\* Mutant: nothing is added when the walk has pushed no message.
SelectedReversedAsWalked(messages, max_token_length) ==
    LET messages_vec == SelectSeq(messages, IsRouted)
    IN  Walk(messages_vec, Len(messages_vec), PromptTemplateLen \div TOKEN_LENGTH_DIVISOR,
             max_token_length, <<>>)

\* lines 81-124: selected_messages_list_reversed
SelectedReversed(messages, max_token_length) ==
    LET messages_vec == SelectSeq(messages, IsRouted)
        pushed == Walk(messages_vec, Len(messages_vec),
                       PromptTemplateLen \div TOKEN_LENGTH_DIVISOR,
                       max_token_length, <<>>)
    IN  IF pushed = <<>> /\ messages_vec # <<>>
        THEN <<messages_vec[Len(messages_vec)]>>
        ELSE pushed

\* RoutingPreference { name, description }
RoutingPreference(n) == [name |-> n, description |-> "usage"]

\* The models and the route names of a configuration.  A name is free text
\* and may contain an apostrophe; two models may declare the same name.
CatalogModels == {"m1", "m2"}
CatalogRouteNames == {"p1", "p2", "it's"}

\* llm_routes: HashMap<String, Vec<RoutingPreference>>, model -> preferences
Catalogs ==
    UNION {[ms -> {<<RoutingPreference(n)>> : n \in CatalogRouteNames}
                  \cup {<<RoutingPreference("p1"), RoutingPreference("p2")>>}] :
           ms \in SUBSET CatalogModels}

\* The catalog of the tests: one model with one route.
TestCatalog == [m \in {"m1"} |-> <<RoutingPreference("p1")>>]

\* The orders in which a HashMap may yield its keys: any order, fixed for one
\* HashMap and free to differ between two HashMaps of the same content.
IterationOrders(map) ==
    {order \in [1..Cardinality(DOMAIN map) -> DOMAIN map] :
        \A i, j \in DOMAIN order : order[i] = order[j] => i = j}

\* HashMap::from_iter over (name, model) pairs: the last pair inserted under
\* a name is the one kept.
LastInserted(pairs, n) ==
    pairs[CHOOSE i \in DOMAIN pairs :
            /\ pairs[i].name = n
            /\ \A j \in DOMAIN pairs : pairs[j].name = n => j <= i].model

\* RouterModelV1::new(llm_routes, ..), lines 47-61, when the HashMap yields its
\* entries in the given order.  llm_route_json_str is kept as the sequence of
\* preferences it serialises.
RouterModelV1New(llm_routes, order) ==
    LET llm_route_values == Flatten([i \in DOMAIN order |-> llm_routes[order[i]]])
        pairs == Flatten([i \in DOMAIN order |->
                    [j \in DOMAIN llm_routes[order[i]] |->
                        [name |-> llm_routes[order[i]][j].name, model |-> order[i]]]])
    IN  [ llm_route_json_str |-> llm_route_values,
          llm_route_to_model_map |->
              [n \in {pairs[i].name : i \in DOMAIN pairs} |-> LastInserted(pairs, n)] ]

\* usage_preferences_from_request: None, or Some(list) of
\* ModelUsagePreference { model, routing_preferences }
NoOverride == [some |-> FALSE, list |-> <<>>]
Override(list) == [some |-> TRUE, list |-> list]

OverridePreference(n) == [name |-> n, description |-> "override"]

Overrides ==
    { NoOverride,
      Override(<<>>),
      Override(<<[model |-> "claude", routing_preferences |-> <<OverridePreference("code")>>]>>),
      Override(<<[model |-> "claude", routing_preferences |-> <<OverridePreference("p1")>>],
                 [model |-> "m2", routing_preferences |->
                     <<OverridePreference("p2"), OverridePreference("p1")>>]>>) }

\* convert_to_router_preferences(prefs_from_request) for Some(list), lines
\* 241-254: the routing preferences of all entries, in order.
ConvertToRouterPreferences(usage_preferences) ==
    Flatten([i \in DOMAIN usage_preferences.list |->
                usage_preferences.list[i].routing_preferences])

\* lines 155-158: what replaces {routes} in the router message
RoutesOfPrompt(model, usage_preferences) ==
    IF usage_preferences.some
    THEN ConvertToRouterPreferences(usage_preferences)
    ELSE model.llm_route_json_str

\* lines 143-149: the message as it is embedded, its content rendered as text
Rendered(m) == [role |-> m.role, content |-> TextContent(ToStringLen(m.content))]

\* lines 139-151: selected_conversation_list
SelectedConversation(messages, max_token_length) ==
    LET reversed == SelectedReversed(messages, max_token_length)
    IN  [i \in 1..Len(reversed) |-> Rendered(reversed[Len(reversed) + 1 - i])]

\* pr_parsed before parse_response has been called
NotParsed == [kind |-> "unset", route |-> NoRoute, model |-> NoRoute]

\* No request is being handled by the RouterModelV1.
NoRouterRequest ==
    /\ pr_pc = "input"
    /\ pr_messages = <<>>
    /\ pr_selected = <<>>
    /\ pr_prefs = NoOverride
    /\ pr_routes = <<>>
    /\ pr_peer_routes = <<>>
    /\ pr_content = <<>>
    /\ pr_parsed = NotParsed
    /\ pr_overridden = FALSE

\* The RouterModelV1 of the tests: one model with one route.
TestModel ==
    /\ pr_llm_routes = TestCatalog
    /\ pr_model = RouterModelV1New(pr_llm_routes, <<"m1">>)
    /\ pr_peer = pr_model

PromptIdle ==
    /\ pr_max = MAX_TOKEN_LEN
    /\ TestModel
    /\ NoRouterRequest

\* A RouterModelV1 with some budget, and no message of the request yet.
PromptInit ==
    /\ pr_max \in MaxTokenLengths
    /\ TestModel
    /\ NoRouterRequest

\* Two gateways are started from the same configuration: each builds its
\* RouterModelV1 from its own HashMap of the routes.
ModelInit ==
    /\ pr_max = MAX_TOKEN_LEN
    /\ pr_llm_routes \in Catalogs
    /\ pr_model \in {RouterModelV1New(pr_llm_routes, order) :
                        order \in IterationOrders(pr_llm_routes)}
    /\ pr_peer \in {RouterModelV1New(pr_llm_routes, order) :
                       order \in IterationOrders(pr_llm_routes)}
    /\ NoRouterRequest

\* The next message of the request's conversation.
AddMessage(m) ==
    /\ pr_pc = "input"
    /\ Len(pr_messages) < MaxMsgs
    /\ pr_messages' = Append(pr_messages, m)
    /\ UNCHANGED <<pr_pc, pr_max, pr_selected, pr_llm_routes, pr_model, pr_peer,
                   pr_prefs, pr_routes, pr_peer_routes, pr_content, pr_parsed,
                   pr_overridden>>
    /\ UNCHANGED <<streamVars, prefVars, chatVars, sseVars>>

\* Mutant: the override of a request is stored into the RouterModelV1.
ModelAfterRequestStored(model, usage_preferences) ==
    IF usage_preferences.some
    THEN [model EXCEPT !.llm_route_json_str = ConvertToRouterPreferences(usage_preferences)]
    ELSE model

\* generate_request and parse_response take &self: the RouterModelV1 is the
\* same after the call, whatever the request carried.
ModelAfterRequest(model, usage_preferences) == model

\* generate_request(messages, usage_preferences_from_request), on both gateways
GenerateRequest(usage_preferences) ==
    /\ pr_pc = "input"
    /\ pr_selected' = SelectedConversation(pr_messages, pr_max)
    /\ pr_prefs' = usage_preferences
    /\ pr_routes' = RoutesOfPrompt(pr_model, usage_preferences)
    /\ pr_peer_routes' = RoutesOfPrompt(pr_peer, usage_preferences)
    /\ pr_model' = ModelAfterRequest(pr_model, usage_preferences)
    /\ pr_peer' = ModelAfterRequest(pr_peer, usage_preferences)
    /\ pr_pc' = "built"
    /\ UNCHANGED <<pr_messages, pr_max, pr_llm_routes, pr_content, pr_parsed, pr_overridden>>
    /\ UNCHANGED <<streamVars, prefVars, chatVars, sseVars>>

\* parse_response(content, usage_preferences) on the router's reply
ParseResponseStep(content) ==
    /\ pr_pc = "built"
    /\ pr_content' = content
    /\ pr_parsed' = ParseResponse(pr_model, content, pr_prefs)
    /\ pr_model' = ModelAfterRequest(pr_model, pr_prefs)
    /\ pr_peer' = ModelAfterRequest(pr_peer, pr_prefs)
    /\ pr_pc' = "parsed"
    /\ UNCHANGED <<pr_messages, pr_max, pr_selected, pr_llm_routes, pr_prefs, pr_routes,
                   pr_peer_routes, pr_overridden>>
    /\ UNCHANGED <<streamVars, prefVars, chatVars, sseVars>>

\* The request is over and its values are dropped; the next one arrives.
NextRequest ==
    /\ pr_pc = "parsed"
    /\ pr_pc' = "input"
    /\ pr_messages' = <<>>
    /\ pr_selected' = <<>>
    /\ pr_prefs' = NoOverride
    /\ pr_routes' = <<>>
    /\ pr_peer_routes' = <<>>
    /\ pr_content' = <<>>
    /\ pr_parsed' = NotParsed
    /\ pr_overridden' = (pr_overridden \/ pr_prefs.some)
    /\ UNCHANGED <<pr_max, pr_llm_routes, pr_model, pr_peer>>
    /\ UNCHANGED <<streamVars, prefVars, chatVars, sseVars>>

PromptNext ==
    \/ \E m \in Messages : AddMessage(m)
    \/ GenerateRequest(NoOverride)

ClientPromptNext ==
    \/ \E m \in ClientMessages : AddMessage(m)
    \/ GenerateRequest(NoOverride)

\* The conversations of the requests given to the router model.
RoutedMessages ==
    {[role |-> r, content |-> TextContent(40)] : r \in {USER_ROLE, ASSISTANT_ROLE}}

ModelNext ==
    \/ \E m \in RoutedMessages : AddMessage(m)
    \/ \E usage_preferences \in Overrides : GenerateRequest(usage_preferences)
    \/ \E content \in RouterTexts : ParseResponseStep(content)
    \/ NextRequest

-----------------------------------------------------------------------------
(* Streaming handoff *)

\* mpsc::channel::<Bytes>(16)
CHANNEL_CAPACITY == 16

\* A chunk is identified by its position in the upstream byte stream.
NextChunk == Len(byte_stream) + 1

StreamInit ==
    /\ task_pc = "next"
    /\ item = 0
    /\ byte_stream = <<>>
    /\ stream_err = FALSE
    /\ chan = <<>>
    /\ rx_dropped = FALSE
    /\ send_failed = FALSE
    /\ delivered = <<>>
    /\ body_ended = FALSE

\* byte_stream.next().await yields Some(Ok(item))
UpstreamChunk ==
    /\ task_pc = "next"
    /\ Len(byte_stream) < MaxChunks
    /\ item' = NextChunk
    /\ byte_stream' = Append(byte_stream, NextChunk)
    /\ task_pc' = "send"
    /\ UNCHANGED <<stream_err, chan, rx_dropped, send_failed, delivered, body_ended>>
    /\ UNCHANGED <<prefVars, chatVars, promptVars, sseVars>>

\* Mutant: the task skips the error and keeps polling the upstream.
OnStreamErrorContinue == "next"

\* What the task does when next() yields Some(Err(err)): warn and break.
OnStreamError == "done"

\* byte_stream.next().await yields Some(Err(err))
UpstreamError ==
    /\ task_pc = "next"
    /\ ~stream_err
    /\ stream_err' = TRUE
    /\ task_pc' = OnStreamError
    /\ UNCHANGED <<item, byte_stream, chan, rx_dropped, send_failed, delivered, body_ended>>
    /\ UNCHANGED <<prefVars, chatVars, promptVars, sseVars>>

\* byte_stream.next().await yields None: the while-let loop ends.
UpstreamEnd ==
    /\ task_pc = "next"
    /\ task_pc' = "done"
    /\ UNCHANGED <<item, byte_stream, stream_err, chan, rx_dropped, send_failed,
                   delivered, body_ended>>
    /\ UNCHANGED <<prefVars, chatVars, promptVars, sseVars>>

\* Mutant: an unbounded channel, a send never waits for room.
SendAlwaysRoom == TRUE

\* tx.send(item).await can complete with Ok: the receiver is alive and the
\* channel has a free slot.  Otherwise the send stays pending.
SendHasRoom == Len(chan) < CHANNEL_CAPACITY

\* Mutant: the channel hands chunks over newest first.
EnqueueFront(q, c) == <<c>> \o q

\* The channel after a completed send of chunk c.
Enqueue(q, c) == Append(q, c)

\* tx.send(item).await returns Ok(())
SendOk ==
    /\ task_pc = "send"
    /\ ~rx_dropped
    /\ SendHasRoom
    /\ chan' = Enqueue(chan, item)
    /\ item' = 0
    /\ task_pc' = "next"
    /\ UNCHANGED <<byte_stream, stream_err, rx_dropped, send_failed, delivered, body_ended>>
    /\ UNCHANGED <<prefVars, chatVars, promptVars, sseVars>>

\* Mutant: the task ignores the failed send and keeps reading.
OnSendErrorContinue == "next"

\* What the task does when tx.send(item).await is Err: warn and break.
OnSendError == "done"

\* tx.send(item).await returns Err: the receiver was dropped.
SendErr ==
    /\ task_pc = "send"
    /\ rx_dropped
    /\ send_failed' = TRUE
    /\ item' = 0
    /\ task_pc' = OnSendError
    /\ UNCHANGED <<byte_stream, stream_err, chan, rx_dropped, delivered, body_ended>>
    /\ UNCHANGED <<prefVars, chatVars, promptVars, sseVars>>

\* The chunk the receiver takes from the channel.
Dequeue(q) == Head(q)

\* ReceiverStream::poll_next yields Some(chunk), mapped to Ok(Frame::data(chunk))
ClientRecv ==
    /\ ~rx_dropped
    /\ ~body_ended
    /\ chan # <<>>
    /\ delivered' = Append(delivered, Dequeue(chan))
    /\ chan' = Tail(chan)
    /\ UNCHANGED <<task_pc, item, byte_stream, stream_err, rx_dropped, send_failed, body_ended>>
    /\ UNCHANGED <<prefVars, chatVars, promptVars, sseVars>>

\* Mutant: the sender outlives the reader task.
TxDroppedNever == FALSE

\* tx was moved into the spawned task: it is dropped when the task returns.
TxDropped == task_pc = "done"

\* ReceiverStream::poll_next yields None: the channel is empty and tx was
\* dropped because the reader task has returned.
ClientEnd ==
    /\ ~rx_dropped
    /\ ~body_ended
    /\ chan = <<>>
    /\ TxDropped
    /\ body_ended' = TRUE
    /\ UNCHANGED <<task_pc, item, byte_stream, stream_err, chan, rx_dropped,
                   send_failed, delivered>>
    /\ UNCHANGED <<prefVars, chatVars, promptVars, sseVars>>

\* The client goes away: hyper drops the response body and with it rx; the
\* chunks still queued are dropped with the channel.
ClientDisconnect ==
    /\ ~rx_dropped
    /\ ~body_ended
    /\ rx_dropped' = TRUE
    /\ chan' = <<>>
    /\ UNCHANGED <<task_pc, item, byte_stream, stream_err, send_failed, delivered, body_ended>>
    /\ UNCHANGED <<prefVars, chatVars, promptVars, sseVars>>

StreamNext ==
    \/ UpstreamChunk
    \/ UpstreamError
    \/ UpstreamEnd
    \/ SendOk
    \/ SendErr
    \/ ClientRecv
    \/ ClientEnd
    \/ ClientDisconnect

\* The steps of a response whose client keeps reading and never goes away.
StreamLiveNext ==
    \/ UpstreamChunk
    \/ UpstreamError
    \/ UpstreamEnd
    \/ SendOk
    \/ ClientRecv
    \/ ClientEnd

-----------------------------------------------------------------------------
(* Server-sent events: SseChatCompletionIter *)

\* Largest number of lines in a streamed body.
MaxLines == 3

\* line.strip_prefix("data: ")
DATA_PREFIX == "data: "
DONE == "[DONE]"
PING == "{[dq]type[dq]: [dq]ping[dq]}"
Space == " "

\* Two chunks that parse as ChatCompletionStreamResponse.
StreamChunks == {"chunk1", "chunk2"}

\* The lines of a streamed body, each a sequence of tokens: chunks, the end
\* marker (also with white space after it), a ping, a ping written without
\* the space, a data field without the space after the colon, another field,
\* and the empty line between two events.
SseLines ==
    { <<DATA_PREFIX, c>> : c \in StreamChunks }
    \cup { <<DATA_PREFIX, DONE>>, <<DATA_PREFIX, DONE, Space>>,
           <<DATA_PREFIX, PING>>, <<DATA_PREFIX, "{[dq]type[dq]:[dq]ping[dq]}">>,
           <<"data:", DONE>>, <<"event: ", "message_stop">>, <<>> }

\* The inputs try_from is given, as the lines of the text.
SseInputs == UNION {[1..n -> SseLines] : n \in 0..MaxLines}

\* No iterator yet.
SseIdle ==
    /\ sse_pc = "idle"
    /\ sse_lines = <<>>
    /\ sse_pos = 1
    /\ sse_items = <<>>

\* Option<&str> of strip_prefix
StripPrefix(line) ==
    IF line # <<>> /\ Head(line) = DATA_PREFIX
    THEN [some |-> TRUE, data |-> Tail(line)]
    ELSE [some |-> FALSE, data |-> <<>>]

\* str::trim: white space at both ends is dropped
RECURSIVE Trim(_)
Trim(data) ==
    IF data = <<>> THEN data
    ELSE IF Head(data) = Space THEN Trim(Tail(data))
    ELSE IF data[Len(data)] = Space THEN Trim(SubSeq(data, 1, Len(data) - 1))
    ELSE data

\* Mutant: no line is taken for a ping.
IsPingNever(data) == FALSE

\* line 236: data == r#"{"type": "ping"}"#
IsPing(data) == data = <<PING>>

\* lines 240-247: serde_json::from_str::<ChatCompletionStreamResponse>(data),
\* Err(InvalidStreamingData) carrying the data when it does not parse.
FromStr(data) ==
    [ok |-> (Len(data) = 1 /\ data[1] \in StreamChunks), data |-> data]

NoItem == [ok |-> FALSE, data |-> <<"None">>]

\* SseChatCompletionIter::next, lines 229-253: the for loop over the lines
\* left, from position pos; what it returns and where the inner iterator
\* stands then.
RECURSIVE NextItem(_, _)
NextItem(lines, pos) ==
    IF pos > Len(lines)
    THEN [some |-> FALSE, item |-> NoItem, pos |-> pos]
    ELSE LET stripped == StripPrefix(lines[pos])
             data == Trim(stripped.data)
         IN  IF ~stripped.some THEN NextItem(lines, pos + 1)
             ELSE IF data = <<DONE>> THEN [some |-> FALSE, item |-> NoItem, pos |-> pos + 1]
             ELSE IF IsPing(data) THEN NextItem(lines, pos + 1)
             ELSE [some |-> TRUE, item |-> FromStr(data), pos |-> pos + 1]

\* try_from(bytes), lines 256-275: an iterator over the lines of the text.
SseTryFrom(input) ==
    /\ sse_pc = "idle"
    /\ sse_pc' = "iterating"
    /\ sse_lines' = input
    /\ sse_pos' = 1
    /\ sse_items' = <<>>
    /\ UNCHANGED <<streamVars, prefVars, chatVars, promptVars>>

\* One call of next() by the consumer, which stops at the first None (the
\* map / collect of stream_chunk_parse_claude).
SseNext ==
    /\ sse_pc = "iterating"
    /\ LET next == NextItem(sse_lines, sse_pos)
       IN  /\ sse_pos' = next.pos
           /\ sse_items' = IF next.some THEN Append(sse_items, next.item) ELSE sse_items
           /\ sse_pc' = IF next.some THEN "iterating" ELSE "ended"
    /\ UNCHANGED sse_lines
    /\ UNCHANGED <<streamVars, prefVars, chatVars, promptVars>>

SseIterNext ==
    \/ \E input \in SseInputs : SseTryFrom(input)
    \/ SseNext

-----------------------------------------------------------------------------
(* Specifications *)

\* No streamed body has been handed to the iterator yet.
InitSse ==
    /\ SseIdle
    /\ StreamInit
    /\ PrefsIdle
    /\ ChatIdle
    /\ PromptIdle

\* SseChatCompletionIter over bounded inputs.
SpecSse == InitSse /\ [][SseIterNext]_vars


\* The state a response starts streaming in.
InitStream ==
    /\ StreamInit
    /\ PrefsIdle
    /\ ChatIdle
    /\ PromptIdle
    /\ SseIdle

\* The state after main has built the provider list and the RouterService.
InitPrefs ==
    /\ PrefsInit
    /\ StreamInit
    /\ ChatIdle
    /\ PromptIdle
    /\ SseIdle

\* The gateway after start-up, before a chat request.
InitChat ==
    /\ PrefsInit
    /\ StreamInit
    /\ ChatIdle
    /\ PromptIdle
    /\ SseIdle

\* generate_request with some budget on some conversation.
InitPrompt ==
    /\ PromptInit
    /\ StreamInit
    /\ PrefsIdle
    /\ ChatIdle
    /\ SseIdle

\* One streamed response.
SpecStream == InitStream /\ [][StreamNext]_vars

\* One streamed response under fair scheduling: the upstream answers every
\* poll of the reader task, the runtime runs the task when its send can
\* complete, and the client polls the body while there is something to take.
SpecStreamLive ==
    /\ InitStream
    /\ [][StreamLiveNext]_vars
    /\ WF_vars(UpstreamChunk \/ UpstreamError \/ UpstreamEnd)
    /\ WF_vars(SendOk)
    /\ WF_vars(ClientRecv)
    /\ WF_vars(ClientEnd)

\* Two concurrent PUT /v1/router/preferences and the GETs under the runtime's
\* scheduling: a handler that can step is run, and tokio's RwLock queues its
\* waiters first come first served, so no waiter is passed over for ever.
SpecUpdates ==
    /\ InitPrefs
    /\ [][UpdatesNext]_vars
    /\ WF_vars(UpdateRejected \/ UpdateValidated \/ UpdateApply \/ UpdateReturn)
    /\ WF_vars(PeerRejected \/ PeerValidated \/ PeerApply \/ PeerReturn)
    /\ WF_vars(ListScan \/ ListReturn)
    /\ SF_vars(UpdateLock)
    /\ SF_vars(PeerLock)
    /\ SF_vars(ListLock)

\* PUT and GET /v1/router/preferences running concurrently.
SpecPrefs == InitPrefs /\ [][PrefsNext]_vars

\* POST /v1/chat/completions up to the start of the streamed response.
SpecChat == InitChat /\ [][ChatNext]_vars

\* RouterModelV1::generate_request on bounded conversations.
SpecPrompt == InitPrompt /\ [][PromptNext]_vars

\* Two RouterModelV1 built from one configuration.
InitModel ==
    /\ ModelInit
    /\ StreamInit
    /\ PrefsIdle
    /\ ChatIdle
    /\ SseIdle

\* RouterModelV1: new, then generate_request and parse_response per request.
SpecModel == InitModel /\ [][ModelNext]_vars

\* RouterModelV1::generate_request on conversations of any role and content.
SpecClientPrompt == InitPrompt /\ [][ClientPromptNext]_vars

\* PUT /v1/router/preferences and the routing of chat requests.
SpecRoute == InitPrefs /\ [][RouteNext]_vars

-----------------------------------------------------------------------------
(* Properties of the streaming handoff (SpecStream) *)

IsPrefix(s, t) ==
    /\ Len(s) <= Len(t)
    /\ \A i \in 1..Len(s) : s[i] = t[i]

\* C4: at every moment the chunks delivered to the client are a prefix of the
\* chunks received from the upstream: nothing is reordered, merged, duplicated
\* or inserted; only the tail may be missing.
C4_DeliveredIsPrefix == IsPrefix(delivered, byte_stream)

\* C4 witness: several chunks were delivered, the client went away and the
\* tail of what the upstream sent was never delivered.
C4_Witness ==
    /\ Len(delivered) >= 3
    /\ rx_dropped
    /\ Len(delivered) < Len(byte_stream)

\* Chunks read from the upstream and not yet taken by the client: those queued
\* in the channel plus the one the reader task holds while it waits to send.
InFlight == Len(chan) + (IF item # 0 THEN 1 ELSE 0)

\* C5: the number of chunks read from the upstream but not yet taken by the
\* client never exceeds channel capacity + 1 = 17.
C5_InFlightBounded ==
    /\ InFlight <= CHANNEL_CAPACITY + 1
    /\ ~rx_dropped => Len(byte_stream) - Len(delivered) = InFlight

\* C5 witness: the channel is full and the reader holds one more chunk, while
\* the client has taken nothing yet.
C5_Witness ==
    /\ InFlight = CHANNEL_CAPACITY + 1
    /\ delivered = <<>>
    /\ task_pc = "send"

\* C6: once the client has disconnected the next send fails and the reader
\* task exits; after a failed send the task reads no further chunk from the
\* upstream and enqueues nothing.
C6_DisconnectStopsReader ==
    /\ [][(rx_dropped /\ task_pc = "send" /\ task_pc' # "send")
            => (send_failed' /\ task_pc' = "done")]_vars
    /\ [][send_failed
            => (byte_stream' = byte_stream /\ chan' = chan /\ task_pc' = "done")]_vars

\* C6 witness: a send failed after the client left, and the task stopped
\* although the upstream could have yielded more.
C6_Witness ==
    /\ send_failed
    /\ rx_dropped
    /\ task_pc = "done"
    /\ Len(byte_stream) < MaxChunks

\* C7: when the upstream yields an error after k chunks the reader enqueues
\* nothing after the error, a client that keeps reading is never left without a
\* next step and, when its body ends, has received exactly the k chunks in
\* order.
C7_UpstreamErrorEndsCleanly ==
    /\ [][stream_err => (byte_stream' = byte_stream /\ Len(chan') <= Len(chan))]_vars
    /\ [](stream_err /\ body_ended => delivered = byte_stream)
    /\ []((stream_err /\ ~rx_dropped /\ ~body_ended)
            => ENABLED (ClientRecv \/ ClientEnd))

\* C7 witness: the upstream failed after at least two chunks and the body of a
\* client that stayed connected has ended.
C7_Witness ==
    /\ stream_err
    /\ body_ended
    /\ Len(byte_stream) >= 2

-----------------------------------------------------------------------------
(* Properties of the provider list and its handlers (SpecPrefs, SpecRoute) *)

\* C1: a determine_route that starts after a successful update_preferences
\* has completed observes the new catalog: the routes offered, the
\* route-to-model resolution and the routable-providers test are those of the
\* provider list as updated.
C1_RouteObservesUpdate ==
    dr_after_update => dr_seen = RouterServiceNew(dr_catalog)

\* C2: an update whose batch names a provider that is not configured fails
\* with 400 and leaves the provider list as it was before the call.
C2_UnknownNameRejected ==
    (/\ upd_pc = "done"
     /\ \E i \in DOMAIN upd_batch : upd_batch[i].name \notin ProviderNames)
        => (upd_status = 400 /\ llm_providers = upd_before)

\* What list_preferences returns for a provider list read in one piece.
ListView(catalog) == [i \in DOMAIN catalog |-> AsPreference(catalog[i])]

\* C3: a list_preferences that runs concurrently with an update_preferences
\* returns the provider list as it was before the update or as it is after
\* it, never a list in which some providers are updated and others are not.
C3_NoTornRead ==
    (list_pc = "done" /\ ~list_overlap)
        => list_out \in {ListView(catalog) : catalog \in list_seen}

\* C3 witness: a GET is waiting for the read guard while an update that
\* changes both providers has changed the first and not yet the second.
C3_Witness ==
    /\ list_pc = "wait"
    /\ upd_pc = "apply"
    /\ upd_idx = 2
    /\ llm_providers[1].usage # upd_before[1].usage
    /\ "p2" \in DOMAIN UsageModelMap(upd_batch)
    /\ upd_before[2].usage # "new"

\* The names the entries of the batch carry.
BatchNames == {upd_batch[i].name : i \in DOMAIN upd_batch}

\* C16: a successful update_preferences changes only the usage of providers
\* named in the batch: the providers, their names and their models are as
\* before the call, and so is the usage of every provider the batch does not
\* name.
C16_UpdateChangesOnlyNamedUsage ==
    (upd_pc = "done" /\ upd_status = 200)
        => /\ Len(llm_providers) = Len(upd_before)
           /\ \A i \in DOMAIN llm_providers :
                 /\ llm_providers[i].name = upd_before[i].name
                 /\ llm_providers[i].model = upd_before[i].model
                 /\ llm_providers[i].name \notin BatchNames
                       => llm_providers[i].usage = upd_before[i].usage

\* C17: a PUT whose entries all name configured providers is not answered
\* 400 and returns as updated records exactly the providers named in the
\* batch, each with the usage supplied for its name; a 400 is returned only
\* for an invalid body or an entry whose name matches no configured provider.
C17_KnownNamesAccepted ==
    upd_pc = "done"
        => /\ (upd_batch # <<>> /\ BatchNames \subseteq LlmProviderNames(llm_providers))
                 => /\ upd_status # 400
                    /\ {upd_updated[i].name : i \in DOMAIN upd_updated} = BatchNames
                    /\ \A i \in DOMAIN upd_updated : \E j \in DOMAIN upd_batch :
                          /\ upd_batch[j].name = upd_updated[i].name
                          /\ upd_batch[j].usage = upd_updated[i].usage
           /\ upd_status = 400
                 => \/ upd_batch = <<>>
                    \/ ~(BatchNames \subseteq LlmProviderNames(llm_providers))

-----------------------------------------------------------------------------
(* Properties of the chat request path (SpecChat) *)

\* The router LLM answered this request with text that does not parse as
\* JSON after the lexical fixes.
NonConformingReply ==
    /\ ch_reply.kind = "text"
    /\ ch_reply.text # <<>>
    /\ ~ParseLlmRouterResponse(FixJsonResponse(ch_reply.text)).ok

\* C8 as claimed: when the router's reply text is non-conforming the decision
\* is None and the request is forwarded upstream with the client-supplied
\* model as hint; the client gets no error status because of it.
C8_NonConformingFallsBack ==
    (NonConformingReply /\ ch_pc # "route")
        => (/\ ch_status # 500
            /\ ch_route = NoRoute
            /\ (ch_pc = "upstream" => ch_hint = ch_body.model)
            /\ ch_pc \in {"upstream", "streaming", "idle"})

\* C8 as amended: when the router's reply text is non-conforming
\* determine_route returns an error, the client receives 500 and the request
\* is not forwarded to the upstream.
C8_NonConformingIs500 ==
    (NonConformingReply /\ ch_pc # "route")
        => (/\ ch_status = 500
            /\ ch_upstream_calls = 0
            /\ ch_hint = NoRoute
            /\ ch_pc \in {"responded", "idle"})

\* C8 witness: a well-formed chat request was answered 500 after the router
\* replied with text that does not parse.
C8_Witness ==
    /\ NonConformingReply
    /\ ch_pc = "responded"
    /\ ch_body.json = "chat"
    /\ ch_router_calls = 1

\* C9: no request ends in a panic; the handler always returns a response.
C9_NoPanic == ch_pc # "panicked"

\* The catalog has no routable provider: no provider has a usage.
NoRoutableProvider == \A i \in DOMAIN llm_providers : ~HasUsage(llm_providers[i])

\* C12: if the catalog has no routable provider, determine_route returns None
\* without a request to the router LLM, and the chat request is then
\* forwarded to the upstream with the client-supplied model as the hint.
C12_FastPathForwards ==
    (NoRoutableProvider /\ ch_body.json = "chat" /\ ch_pc \notin {"idle", "route"})
        => (/\ ch_router_calls = 0
            /\ ch_route = NoRoute
            /\ ch_hint = ch_body.model
            /\ \/ ch_pc = "upstream"
               \/ ch_pc \in {"streaming", "responded"} /\ ch_upstream_calls = 1)

\* The route the router LLM named for this request, NoRoute when it named
\* none: the reply has no text, or its route is absent, null, empty or "other".
NamedRoute ==
    IF ch_reply.kind = "text" /\ ParseRoute(ch_reply.text).kind = "some"
       /\ ParseRoute(ch_reply.text).route # "other"
    THEN ParseRoute(ch_reply.text).route
    ELSE NoRoute

\* The models bound to a route name: by the override of the request when it
\* has one (first matching entry), else by the configured providers.
ModelsOfRoute(r) ==
    IF ch_prefs # NoPrefs
    THEN {ch_prefs[i].model : i \in {i \in DOMAIN ch_prefs :
                /\ ch_prefs[i].name = r
                /\ \A j \in 1..(i - 1) : ch_prefs[j].name # r}}
    ELSE {llm_providers[i].model : i \in {i \in DOMAIN llm_providers :
                llm_providers[i].name = r}}

\* C13: for every chat request that is forwarded upstream the hint sent
\* upstream is the provider model of the routing decision when there is one,
\* and the model of the client's request body when the decision is None (no
\* routable provider, no route named, an unknown route, or "other").
C13_HintIsDecisionOrClientModel ==
    ch_upstream_calls > 0 \/ ch_pc = "upstream"
        => IF NoRoutableProvider \/ NamedRoute = NoRoute \/ ModelsOfRoute(NamedRoute) = {}
           THEN ch_route = NoRoute /\ ch_hint = ch_body.model
           ELSE ch_route \in ModelsOfRoute(NamedRoute) /\ ch_hint = ch_route

\* C13 witness: a request was forwarded with the model of the provider the
\* router named, which is not the model the client asked for.
C13_Witness ==
    /\ ch_pc = "streaming"
    /\ ch_upstream_calls = 1
    /\ NamedRoute = "p2"
    /\ ch_prefs = NoPrefs
    /\ ch_hint = "m2"
    /\ ch_body.model = "gpt-4o"

\* C19: when the inbound body is no JSON the handler responds 400 and
\* returns; neither the router LLM nor the upstream provider is called.
C19_InvalidJsonIs400 ==
    ch_body.json = "invalid"
        => /\ ch_pc \in {"idle", "responded"}
           /\ ch_pc = "responded" => ch_status = 400
           /\ ch_router_calls = 0
           /\ ch_upstream_calls = 0
           /\ ch_hint = NoRoute

\* C19 witness: a body that is no JSON was answered 400 by a gateway whose
\* catalog has routable providers.
C19_Witness ==
    /\ ch_body.json = "invalid"
    /\ ch_pc = "responded"
    /\ ch_status = 400
    /\ ~NoRoutableProvider

\* C20: when the call to the router LLM fails at the transport level,
\* determine_route returns an error, the client receives 500, exactly one
\* attempt was made and the request is never forwarded to the upstream.
C20_RouterTransportErrorIs500 ==
    ch_reply.kind = "transport_error"
        => /\ ch_pc \in {"responded", "idle"}
           /\ ch_status = 500
           /\ ch_router_calls = 1
           /\ ch_upstream_calls = 0
           /\ ch_hint = NoRoute

\* C20 witness: a well-formed chat request was answered 500 after the one
\* POST to the router LLM failed.
C20_Witness ==
    /\ ch_reply.kind = "transport_error"
    /\ ch_pc = "responded"
    /\ ch_body.json = "chat"
    /\ ch_body.model = "gpt-4o"
    /\ ch_router_calls = 1

\* What chat_completions does with the result of determine_route when the
\* request carries no override: the status, the decision and the hint.
OutcomeWithoutOverride ==
    LET result == IF router_service.llm_usage_defined
                  THEN RouteResult(router_service, NoPrefs, ch_reply)
                  ELSE [ok |-> TRUE, route |-> NoRoute]
    IN  IF ~result.ok
        THEN ch_status = 500 /\ ch_pc \in {"responded", "idle"} /\ ch_upstream_calls = 0
        ELSE /\ ch_route = result.route
             /\ ch_pc \in {"upstream", "streaming"}
                   => ch_hint = (IF result.route = NoRoute THEN ch_body.model ELSE result.route)
             /\ ch_upstream_calls = 0 => ch_status = 0

\* C21: an archgw_preference_config that does not parse as an override list
\* is treated as no override: the request is routed with the catalog's routes
\* as if the key were absent and does not fail because of it.
C21_UnparsableOverrideIgnored ==
    (ch_body.json = "chat" /\ ch_body.metadata.kind = "unparsable" /\ ch_pc # "idle")
        => /\ ch_prefs = NoPrefs
           /\ ch_pc # "route" => OutcomeWithoutOverride

\* C21 witness: a request whose override does not parse was forwarded with
\* the model the catalog binds to the route the router named.
C21_Witness ==
    /\ ch_body.json = "chat"
    /\ ch_body.metadata.kind = "unparsable"
    /\ ch_pc = "streaming"
    /\ ch_reply.kind = "text"
    /\ ch_hint = "m1"

\* C22: the body POSTed to the upstream never has
\* metadata.archgw_preference_config; the metadata object goes when it is
\* empty without that key; every other key of metadata and the other
\* top-level fields are the inbound ones.
C22_ForwardedBodyStripped ==
    (ch_upstream_calls > 0 \/ ch_pc = "upstream")
        => LET inbound == MetadataValue(ch_body)
               kept == inbound.keys \ {PREFERENCE_CONFIG_KEY}
           IN  /\ PREFERENCE_CONFIG_KEY \notin ch_outbound.metadata.keys
               /\ ch_outbound.metadata.keys = kept
               /\ ch_outbound.metadata.object = (inbound.object /\ kept # {})
               /\ ch_outbound.model = ch_body.model

\* An override was sent next to another metadata key, and the body went out.
C22_Witness ==
    /\ ch_upstream_calls = 1
    /\ ch_body.metadata.kind = "override"
    /\ ch_body.others.keys = {"user_id"}
    /\ ch_outbound.metadata = [object |-> TRUE, keys |-> {"user_id"}]

\* determine_route has returned Ok for the request at hand.
RouteReturnedOk ==
    /\ ch_pc # "route"
    /\ IF router_service.llm_usage_defined
       THEN ch_router_calls = 1 /\ RouteResult(router_service, ch_prefs, ch_reply).ok
       ELSE ch_router_calls = 0

\* C26: within one chat request at most one POST goes to the router LLM and
\* at most one to the upstream provider; the upstream POST is made only after
\* determine_route returned Ok; the response is streamed only after the
\* upstream POST returned.
C26_CallsOrderedAndBounded ==
    /\ ch_router_calls <= 1
    /\ ch_upstream_calls <= 1
    /\ (ch_pc = "upstream" \/ ch_upstream_calls > 0) => RouteReturnedOk
    /\ ch_pc = "upstream" => (ch_upstream_calls = 0 /\ ch_status = 0)
    /\ ch_pc = "streaming" => (ch_upstream_calls = 1 /\ ch_status = 200)
    /\ ch_pc = "route" => (ch_router_calls = 0 /\ ch_upstream_calls = 0 /\ ch_status = 0)

\* The router LLM was asked once, the upstream once, and the body streams.
C26_Witness ==
    /\ ch_pc = "streaming"
    /\ ch_router_calls = 1
    /\ ch_upstream_calls = 1
    /\ ch_route # NoRoute

-----------------------------------------------------------------------------
(* Concurrent updates of the provider list (SpecUpdates) *)

\* The provider list with the batch applied to its first n providers.
AppliedUpTo(catalog, batch, n) ==
    [i \in DOMAIN catalog |->
        IF i <= n /\ catalog[i].name \in DOMAIN UsageModelMap(batch)
        THEN [catalog[i] EXCEPT !.usage = UsageModelMap(batch)[catalog[i].name].usage]
        ELSE catalog[i]]

\* One update_preferences run alone on the catalog: the batch is applied when
\* every key names a provider, and nothing changes otherwise.
ApplyBatch(catalog, batch) ==
    IF \A k \in DOMAIN UsageModelMap(batch) : k \in LlmProviderNames(catalog)
    THEN AppliedUpTo(catalog, batch, Len(catalog))
    ELSE catalog

\* The write guard is held exactly while a handler validates or applies.
WriteGuardHeldByHandler ==
    lock_writer <=> (upd_pc \in {"validate", "apply"} \/ peer_pc \in {"validate", "apply"})

\* From its validation to its return a handler sees the catalog it locked,
\* changed by its own writes only.
SameCatalogWhileHeld ==
    /\ upd_pc \in {"validate", "apply"}
          => /\ peer_pc \notin {"validate", "apply"}
             /\ lock_readers = 0
             /\ llm_providers = AppliedUpTo(upd_before, upd_batch,
                                            IF upd_pc = "apply" THEN upd_idx - 1 ELSE 0)
    /\ peer_pc \in {"validate", "apply"}
          => /\ lock_readers = 0
             /\ llm_providers = AppliedUpTo(peer_before, peer_batch,
                                            IF peer_pc = "apply" THEN peer_idx - 1 ELSE 0)

\* When both updates have returned the catalog is what the two batches give
\* when applied one after the other, in one of the two orders.
SerialOutcome ==
    (upd_pc = "done" /\ peer_pc = "done")
        => \/ llm_providers = ApplyBatch(ApplyBatch(upd_base, upd_batch), peer_batch)
           \/ llm_providers = ApplyBatch(ApplyBatch(upd_base, peer_batch), upd_batch)

\* C30: concurrent update_preferences calls are serialized by the write lock:
\* the final catalog is that of the two batches applied one after the other
\* in some order, validation and application of a batch see the same catalog,
\* the guard is released on every return path, and every reader or writer
\* that waits for the lock eventually acquires it.
C30_UpdatesSerialized ==
    /\ [](WriteGuardHeldByHandler /\ SameCatalogWhileHeld /\ SerialOutcome)
    /\ (upd_pc = "parsed") ~> (upd_pc = "validate")
    /\ (peer_pc = "parsed") ~> (peer_pc = "validate")
    /\ (list_pc = "wait") ~> (list_pc = "scan")
    /\ (upd_pc = "validate") ~> (upd_pc = "done" /\ upd_status \in {200, 400, 404})
    /\ (peer_pc = "validate") ~> (peer_pc = "done" /\ peer_status \in {200, 400, 404})

\* One update is half applied while the other update and a GET wait for the
\* lock.
C30_Witness ==
    /\ upd_pc = "apply"
    /\ upd_idx = 2
    /\ llm_providers # upd_before
    /\ peer_pc = "parsed"
    /\ peer_batch # <<>>
    /\ list_pc = "wait"

-----------------------------------------------------------------------------
(* Liveness of the streaming handoff (SpecStreamLive) *)

Range(s) == {s[i] : i \in DOMAIN s}

\* C29: when the upstream ends or fails after finitely many chunks and the
\* client keeps reading, every chunk the reader task received is eventually
\* delivered, the task terminates and the response body is closed.
C29_StreamDrainsAndCloses ==
    /\ \A c \in 1..MaxChunks : (c \in Range(byte_stream)) ~> (c \in Range(delivered))
    /\ <>[](task_pc = "done" /\ body_ended /\ delivered = byte_stream)

\* The upstream failed after more chunks than the channel holds; all of them
\* reached the client and the body is closed.
C29_Witness ==
    /\ stream_err
    /\ task_pc = "done"
    /\ body_ended
    /\ Len(byte_stream) > CHANNEL_CAPACITY
    /\ delivered = byte_stream

-----------------------------------------------------------------------------
(* Properties of the SSE iterator (SpecSse) *)

IsDataLine(line) == line # <<>> /\ Head(line) = "data: "

\* The line is "data: [DONE]", white space around the marker aside.
IsDoneLine(line) ==
    /\ IsDataLine(line)
    /\ \E i \in 2..Len(line) :
          /\ line[i] = "[DONE]"
          /\ \A j \in 2..Len(line) : j # i => line[j] = " "

IsPingLine(line) == line = <<"data: ", PING>>

\* The data lines before position k that are no ping, in source order.
RECURSIVE ItemsBefore(_, _)
ItemsBefore(lines, k) ==
    IF k <= 1 THEN <<>>
    ELSE LET line == lines[k - 1]
             rest == ItemsBefore(lines, k - 1)
         IN  IF IsDataLine(line) /\ ~IsPingLine(line)
             THEN Append(rest, [ok |-> line[2] \in StreamChunks, data |-> Tail(line)])
             ELSE rest

\* The position of the first "data: [DONE]" line, or the end of the input.
FirstDone(lines) ==
    IF \E k \in DOMAIN lines : IsDoneLine(lines[k])
    THEN CHOOSE k \in DOMAIN lines :
            IsDoneLine(lines[k]) /\ \A j \in 1..(k - 1) : ~IsDoneLine(lines[j])
    ELSE Len(lines) + 1

\* C27: the iterator yields, in source order, exactly one item for each
\* "data: " line before the first "data: [DONE]" line, ping lines and lines
\* without the prefix skipped; it yields nothing for the [DONE] line and
\* returns None when it reaches it or the end of the input.
C27_OneItemPerDataLine ==
    LET expected == ItemsBefore(sse_lines, FirstDone(sse_lines))
    IN  /\ sse_pc = "iterating" => IsPrefix(sse_items, expected)
        /\ sse_pc = "ended"
              => /\ sse_items = expected
                 /\ sse_pos = IF FirstDone(sse_lines) <= Len(sse_lines)
                              THEN FirstDone(sse_lines) + 1
                              ELSE Len(sse_lines) + 1

\* A chunk, then the end marker, then one more chunk: one item was yielded.
C27_Witness ==
    /\ sse_pc = "ended"
    /\ Len(sse_lines) = 3
    /\ IsDataLine(sse_lines[1])
    /\ IsDoneLine(sse_lines[2])
    /\ IsDataLine(sse_lines[3])
    /\ Len(sse_items) = 1
    /\ sse_items[1].ok

-----------------------------------------------------------------------------
(* Properties of the prompt builder (SpecPrompt) *)

RECURSIVE SumTokens(_)
SumTokens(conversation) ==
    IF conversation = <<>> THEN 0
    ELSE (Head(conversation).content.len \div 4) + SumTokens(Tail(conversation))

\* The estimated token count of a prompt that embeds the conversation: the
\* template's length / 4 plus each message's content length / 4.
Estimate(conversation) == (PromptTemplateLen \div 4) + SumTokens(conversation)

\* C10 as claimed: the estimate of the emitted prompt is at most
\* max_token_length, or else exactly one message is retained and it is a user
\* turn.
C10_BudgetOrSingleUser ==
    pr_pc = "built"
        => \/ Estimate(pr_selected) <= pr_max
           \/ (Len(pr_selected) = 1 /\ pr_selected[1].role = USER_ROLE)

\* C10 as amended: the estimate of the emitted prompt is at most
\* max_token_length, or else the oldest retained message is a user turn and
\* the estimate without it is at most max_token_length, or else at most one
\* message is retained.
C10_BudgetOrOldestUser ==
    pr_pc = "built"
        => \/ Estimate(pr_selected) <= pr_max
           \/ /\ pr_selected # <<>>
              /\ pr_selected[1].role = USER_ROLE
              /\ Estimate(Tail(pr_selected)) <= pr_max
           \/ Len(pr_selected) <= 1

\* C10 witness: a built prompt over budget that retains a user turn and the
\* newer messages after it.
C10_Witness ==
    /\ pr_pc = "built"
    /\ Estimate(pr_selected) > pr_max
    /\ Len(pr_selected) >= 2
    /\ pr_selected[1].role = USER_ROLE

\* C11: every message embedded in the router prompt's conversation has role
\* user or assistant and non-empty textual content.
C11_OnlyUserAssistantText ==
    pr_pc = "built"
        => \A i \in DOMAIN pr_selected :
              /\ pr_selected[i].role \in {USER_ROLE, ASSISTANT_ROLE}
              /\ pr_selected[i].content.kind = "text"
              /\ pr_selected[i].content.len > 0

\* The filtered conversation of the request: messages_vec.
FilteredConversation == SelectSeq(pr_messages, IsRouted)

\* The running estimate when the walk has taken the messages from the newest
\* down to position k.
RECURSIVE RunningEstimate(_, _)
RunningEstimate(filtered, k) ==
    IF k > Len(filtered) THEN PromptTemplateLen \div 4
    ELSE (ToStringLen(filtered[k].content) \div 4) + RunningEstimate(filtered, k + 1)

\* The positions of the filtered conversation whose running estimate exceeds
\* the budget.
OverBudget(filtered) == {k \in DOMAIN filtered : RunningEstimate(filtered, k) > pr_max}

\* The embedded conversation is the last messages of the filtered one, in
\* their order, and holds every message within the budget.
KeepsSuffix(filtered) ==
    /\ Len(pr_selected) <= Len(filtered)
    /\ \A i \in DOMAIN pr_selected :
          pr_selected[i] = Rendered(filtered[Len(filtered) - Len(pr_selected) + i])
    /\ \A k \in DOMAIN filtered \ OverBudget(filtered) : k > Len(filtered) - Len(pr_selected)

\* C25 as claimed: the retained messages are a contiguous suffix of the
\* filtered conversation in its order; messages are retained while the
\* running estimate is within the budget; the first message that exceeds it
\* is retained if and only if its role is user; nothing older is retained.
C25_SuffixOverBudgetIffUser ==
    pr_pc = "built"
        => LET filtered == FilteredConversation
               first == CHOOSE k \in OverBudget(filtered) :
                            \A j \in OverBudget(filtered) : j <= k
               Retained(k) == k > Len(filtered) - Len(pr_selected)
           IN  /\ KeepsSuffix(filtered)
               /\ OverBudget(filtered) # {}
                    => /\ Retained(first) <=> filtered[first].role = USER_ROLE
                       /\ \A k \in 1..(first - 1) : ~Retained(k)

\* C25 as amended: the first message that exceeds the budget is retained if
\* and only if its role is user or it is the newest filtered message.
C25_SuffixOverBudgetIffUserOrNewest ==
    pr_pc = "built"
        => LET filtered == FilteredConversation
               first == CHOOSE k \in OverBudget(filtered) :
                            \A j \in OverBudget(filtered) : j <= k
               Retained(k) == k > Len(filtered) - Len(pr_selected)
           IN  /\ KeepsSuffix(filtered)
               /\ OverBudget(filtered) # {}
                    => /\ Retained(first) <=> (\/ filtered[first].role = USER_ROLE
                                                \/ first = Len(filtered))
                       /\ \A k \in 1..(first - 1) : ~Retained(k)

\* Three messages pass the filter; the second exceeds the budget and is kept
\* as a user turn, the first is dropped.
C25_Witness ==
    /\ pr_pc = "built"
    /\ Len(FilteredConversation) = 3
    /\ Len(pr_selected) = 2
    /\ pr_selected[1].role = USER_ROLE
    /\ OverBudget(FilteredConversation) = {1, 2}

\* C28: when the filtered conversation is not empty, the conversation
\* embedded in the prompt is not empty and ends with the newest filtered
\* message, under every max_token_length and whatever that message's role.
C28_NewestFilteredIsLast ==
    (pr_pc = "built" /\ FilteredConversation # <<>>)
        => /\ pr_selected # <<>>
           /\ pr_selected[Len(pr_selected)] =
                 Rendered(FilteredConversation[Len(FilteredConversation)])

\* Under a budget below the template's own estimate the newest filtered
\* message, an assistant turn, is the one embedded.
C28_Witness ==
    /\ pr_pc = "built"
    /\ pr_max < PromptTemplateLen \div 4
    /\ Len(FilteredConversation) >= 2
    /\ FilteredConversation[Len(FilteredConversation)].role = ASSISTANT_ROLE
    /\ Len(pr_selected) = 1
    /\ pr_selected[1].role = ASSISTANT_ROLE

-----------------------------------------------------------------------------
(* Properties of the router model (SpecModel) *)

\* The reply as the router sent it is JSON whose route field is absent, null,
\* the empty string or "other".
ReplyWithoutRoute(content) ==
    \/ content = <<"{", "}">>
    \/ content = <<"{", DQ, "route", DQ, ":", "null", "}">>
    \/ content = <<"{", DQ, "route", DQ, ":", DQ, DQ, "}">>
    \/ content = JsonRoute(DQ, "other")

\* The cleaned reply is a JSON object with at most a route member.
CleanedIsJson(content) ==
    LET t == SelectSeq(FixJsonResponse(content), NotLineFeed)
    IN  \/ t = <<"{", "}">>
        \/ t = <<"{", DQ, "route", DQ, ":", "null", "}">>
        \/ t = <<"{", DQ, "route", DQ, ":", DQ, DQ, "}">>
        \/ \E n \in RouteNames \ {"it's"} : t = JsonRoute(DQ, n)

\* C23: parse_response returns None, not an error and not a route, for the
\* empty reply and for JSON whose route is absent, null, empty or "other"; it
\* returns a parse error when the cleaned reply is not valid JSON.
C23_NoneOrParseError ==
    pr_pc = "parsed"
        => /\ (pr_content = <<>> \/ ReplyWithoutRoute(pr_content))
                => pr_parsed = [kind |-> "none", route |-> NoRoute, model |-> NoRoute]
           /\ (pr_content # <<>> /\ ~CleanedIsJson(pr_content))
                => pr_parsed.kind = "err"

\* A reply with a null route has been parsed to None.
C23_Witness ==
    /\ pr_pc = "parsed"
    /\ pr_content = <<"{", DQ, "route", DQ, ":", "null", "}">>
    /\ pr_parsed.kind = "none"

\* The override entries whose routing_preferences have the route name.
EntriesWithRoute(list, n) ==
    {i \in DOMAIN list :
        \E j \in DOMAIN list[i].routing_preferences : list[i].routing_preferences[j].name = n}

\* C24: with an override in effect the selected route resolves to the model
\* of the first override entry that has the route name, and to None when no
\* entry has it, whatever the catalog's route-to-model map holds; the map is
\* looked up only when there is no override.
C24_OverrideResolvesAlone ==
    (pr_pc = "parsed" /\ ParseRoute(pr_content).kind = "some")
        => LET n == ParseRoute(pr_content).route
               with == EntriesWithRoute(pr_prefs.list, n)
               none == [kind |-> "none", route |-> NoRoute, model |-> NoRoute]
           IN  IF pr_prefs.some
               THEN IF with = {}
                    THEN pr_parsed = none
                    ELSE \E i \in with :
                            /\ \A k \in with : i <= k
                            /\ pr_parsed = [kind |-> "some", route |-> n,
                                            model |-> pr_prefs.list[i].model]
               ELSE IF n \in DOMAIN pr_model.llm_route_to_model_map
                    THEN pr_parsed = [kind |-> "some", route |-> n,
                                      model |-> pr_model.llm_route_to_model_map[n]]
                    ELSE pr_parsed = none

\* The router chose a route of the catalog that the override does not have.
C24_Witness ==
    /\ pr_pc = "parsed"
    /\ pr_prefs.some
    /\ pr_prefs.list # <<>>
    /\ ParseRoute(pr_content).kind = "some"
    /\ ParseRoute(pr_content).route \in DOMAIN pr_model.llm_route_to_model_map
    /\ EntriesWithRoute(pr_prefs.list, ParseRoute(pr_content).route) = {}
    /\ pr_parsed.kind = "none"

\* The route name is declared by one model only: it identifies a provider.
UniqueRoute(n) ==
    Cardinality({m \in DOMAIN pr_llm_routes :
        \E j \in DOMAIN pr_llm_routes[m] : pr_llm_routes[m][j].name = n}) = 1

\* C14: for every provider with name n and model m in the catalog, when the
\* request has no override and the router emits {"route":"n"}, parse_response
\* returns Some((n, m)).
C14_RouteRoundTrip ==
    (pr_pc = "parsed" /\ ~pr_prefs.some)
        => \A m \in DOMAIN pr_llm_routes : \A j \in DOMAIN pr_llm_routes[m] :
              LET n == pr_llm_routes[m][j].name
              IN  (UniqueRoute(n) /\ pr_content = JsonRoute(DQ, n))
                    => pr_parsed = [kind |-> "some", route |-> n, model |-> m]

\* The RouterModelV1 values that new() can build from the configured routes.
ModelsOfCatalog ==
    {RouterModelV1New(pr_llm_routes, order) : order \in IterationOrders(pr_llm_routes)}

\* C15: an override replaces the routing view for its own request only and
\* never changes the catalog: whatever requests came before, the routes and
\* the route-to-model map of the RouterModelV1 are those built from the
\* configuration, a request with an override is routed with the override's
\* routes, and a request without one with the catalog's.
C15_OverrideLeavesCatalog ==
    /\ pr_model \in ModelsOfCatalog
    /\ pr_pc \in {"built", "parsed"} =>
          pr_routes = IF pr_prefs.some
                      THEN ConvertToRouterPreferences(pr_prefs)
                      ELSE pr_model.llm_route_json_str
    /\ (pr_pc = "parsed" /\ pr_parsed.kind = "some") =>
          IF pr_prefs.some
          THEN \E i \in DOMAIN pr_prefs.list :
                  /\ pr_prefs.list[i].model = pr_parsed.model
                  /\ \E j \in DOMAIN pr_prefs.list[i].routing_preferences :
                        pr_prefs.list[i].routing_preferences[j].name = pr_parsed.route
          ELSE /\ pr_parsed.model \in DOMAIN pr_llm_routes
               /\ \E j \in DOMAIN pr_llm_routes[pr_parsed.model] :
                     pr_llm_routes[pr_parsed.model][j].name = pr_parsed.route

\* C15 witness: after a request that carried an override, a request without
\* one was given the catalog's routes and resolved by the catalog's map.
C15_Witness ==
    /\ pr_overridden
    /\ pr_pc = "parsed"
    /\ ~pr_prefs.some
    /\ pr_routes # <<>>
    /\ pr_parsed.kind = "some"
    /\ pr_parsed.model = "m2"

\* C18: two builds of the router prompt from the same conversation, catalog
\* and override give the same prompt text, with the routes in the same order,
\* also when the builds are made by two gateways started from the same
\* configuration.  Both gateways embed the same conversation, so the prompts
\* are equal when the routes embedded are.
C18_PromptDeterministic ==
    pr_pc \in {"built", "parsed"} => pr_routes = pr_peer_routes

====
